---- MODULE Spec2Model ----
(***************************************************************************)
(* A model of the LabOne mock data server                                  *)
(* (labone.mock.AutomaticSessionFunctionality): the in-memory store behind *)
(* get / set, the resolution of path expressions (fnmatch in list_nodes,   *)
(* a regular expression in resolve_wildcards_labone) and the fan-out of    *)
(* every set to the streaming handles subscribed to the path.              *)
(*                                                                         *)
(* Strings are sequences of one-character strings, so that the string      *)
(* functions of the source (re.escape, str.replace, re.match,              *)
(* fnmatch) are computed character by character as the source does.        *)
(***************************************************************************)
EXTENDS Integers, Sequences, FiniteSets, TLC

\* ------------------------------------------------------------------------
\* Bounds of the model
\* ------------------------------------------------------------------------

\* set, set_with_expression and subscribe_logic calls in one behaviour
MaxCalls == 3

\* largest value of the monotonic clock
MaxClock == 1

\* ------------------------------------------------------------------------
\* Paths and path expressions
\* ------------------------------------------------------------------------

Range(s) == {s[i] : i \in DOMAIN s}

pABC == <<"/", "a", "/", "b", "/", "c">>
pABD == <<"/", "a", "/", "b", "/", "d">>
pAX == <<"/", "a", "/", "x">>
pAXY == <<"/", "a", "/", "x", "/", "y">>
pB == <<"/", "b">>
pA == <<"/", "a">>
pAB == <<"/", "a", "/", "b">>
pAC == <<"/", "a", "/", "c">>
pZZ == <<"/", "z", "z">>
eStar == <<"*">>
eSlashStar == <<"/", "*">>
eAStar == <<"/", "a", "/", "*">>
eStarX == <<"/", "*", "/", "x">>
eStarStar == <<"/", "*", "/", "*">>
eEmpty == << >>
eZZStar == <<"/", "z", "z", "/", "*">>

p_ab == <<"/", "a", "b">>
p_a_bc == <<"/", "a", "/", "b", "c">>
eStarB == <<"/", "*", "/", "b">>
eStarStarC == <<"/", "*", "/", "*", "/", "c">>
eAStarC == <<"/", "a", "/", "*", "/", "c">>
eABStar == <<"/", "a", "/", "b", "/", "*">>

\* The longest list of nodes handed to resolve_wildcards_labone.
MaxNodes == 3

\* The paths and the lists of nodes handed to resolve_wildcards_labone:
\* expressions without and with wildcard segments, and every list of up
\* to MaxNodes nodes, in any order.
ResolveExpressions ==
    {eEmpty, pA, p_ab, pAB, pABC, pB, pZZ,
     eStar, eSlashStar, eAStar, eABStar, eStarB, eStarStar, eStarStarC,
     eAStarC}
ResolveNodes == {pA, p_ab, pAB, p_a_bc, pABC, pAC, pB}
NodeLists == UNION {[1..n -> ResolveNodes] : n \in 0..MaxNodes}

\* The tree structure handed to the constructor in the tests
\* (a dict: its keys in insertion order).
TestRegistry == <<pABC, pABD, pAX, pAXY, pB>>

\* The registries the server is constructed with.
Registries == {TestRegistry}

\* Paths a caller passes to get / set: registered ones and one that is not
\* registered.
CallPaths == {pAX, pB, pAC}

\* Path expressions a caller passes to get_with_expression, to
\* set_with_expression and to list_nodes / list_nodes_info.
GetExpressions == {eStar, pAX, pABC}
SetExpressions == {eStar, pA, pABC, pZZ, eZZStar}
ListExpressions == {pA}
CallExpressions == GetExpressions \cup SetExpressions \cup ListExpressions

\* Paths a caller subscribes to.
SubscribePaths == {pAX, pAXY}

\* Every path that can become a key of the store.
StorePaths == CallPaths \cup UNION {Range(r) : r \in Registries}

\* ------------------------------------------------------------------------
\* String functions of the Python library used by the source
\* ------------------------------------------------------------------------

\* a[i:] of Python: the suffix of s after its first n characters
Drop(s, n) == SubSeq(s, n + 1, Len(s))

\* a[:n] of Python: the first n characters of s, or all of s
Take(s, n) == SubSeq(s, 1, IF n < Len(s) THEN n ELSE Len(s))

\* s.startswith(prefix)
StartsWith(s, prefix) ==
    /\ Len(prefix) <= Len(s)
    /\ SubSeq(s, 1, Len(prefix)) = prefix

\* str.replace(old, new): every non-overlapping occurrence, left to right
RECURSIVE str_replace(_, _, _)
str_replace(s, old, new) ==
    IF Len(s) < Len(old) \/ s = << >> THEN s
    ELSE IF StartsWith(s, old)
         THEN new \o str_replace(Drop(s, Len(old)), old, new)
         ELSE <<Head(s)>> \o str_replace(Tail(s), old, new)

\* Characters re.escape leaves alone: letters, digits, "_" and (since
\* Python 3.7) "/"; every other character of a path gets a backslash.
ReSpecial == {"*", ".", "?", "[", "]", "(", ")", "$", "^", "+", "\\", "|"}

RECURSIVE re_escape(_)
re_escape(s) ==
    IF s = << >> THEN << >>
    ELSE (IF Head(s) \in ReSpecial THEN <<"\\", Head(s)>> ELSE <<Head(s)>>)
         \o re_escape(Tail(s))

\* fnmatch.fnmatch(name, pat) on POSIX: "*" matches any run of characters,
\* "/" included; every other character of the patterns used here matches
\* itself; the whole name has to match.
RECURSIVE fnmatch(_, _)
fnmatch(name, pat) ==
    IF pat = << >> THEN name = << >>
    ELSE IF Head(pat) = "*"
         THEN \/ fnmatch(name, Tail(pat))
              \/ (name # << >> /\ fnmatch(Tail(name), pat))
         ELSE /\ name # << >>
              /\ Head(name) = Head(pat)
              /\ fnmatch(Tail(name), Tail(pat))

\* The segments of a path: its parts between the slashes.
RECURSIVE SplitAcc(_, _, _)
SplitAcc(s, cur, acc) ==
    IF s = << >>
    THEN IF cur = << >> THEN acc ELSE Append(acc, cur)
    ELSE IF Head(s) = "/"
         THEN SplitAcc(Tail(s), << >>,
                       IF cur = << >> THEN acc ELSE Append(acc, cur))
         ELSE SplitAcc(Tail(s), Append(cur, Head(s)), acc)

Segments(path) == SplitAcc(path, << >>, << >>)

\* The tail every pattern of resolve_wildcards_labone ends with.
ReSuffix == <<"(", "/", ".", "*", ")", "?", "$">>

\* The regular expression in front of ReSuffix, parsed into its items:
\* an escaped character, the class [^/] or a plain character, each
\* optionally followed by the quantifier "*".
RECURSIVE re_parse(_)
re_parse(r) ==
    IF r = << >> THEN << >>
    ELSE LET escaped == Head(r) = "\\"
             class == StartsWith(r, <<"[", "^", "/", "]">>)
             width == IF escaped THEN 2 ELSE IF class THEN 4 ELSE 1
             starred == Len(r) > width /\ r[width + 1] = "*"
             item == [kind |-> IF class THEN "notslash" ELSE "lit",
                      ch |-> IF escaped THEN r[2] ELSE Head(r),
                      star |-> starred]
         IN  <<item>> \o re_parse(Drop(r, width + (IF starred THEN 1 ELSE 0)))

ReItemMatches(item, c) ==
    IF item.kind = "notslash" THEN c # "/" ELSE c = item.ch

\* re.match of the parsed items followed by (/.*)?$ : the items match a
\* prefix of s (backtracking over every "*"), and what is left of s is
\* empty or starts with "/".
RECURSIVE re_match_items(_, _)
re_match_items(items, s) ==
    IF items = << >> THEN s = << >> \/ Head(s) = "/"
    ELSE LET item == Head(items) IN
         IF item.star
         THEN \/ re_match_items(Tail(items), s)
              \/ (s # << >> /\ ReItemMatches(item, Head(s))
                  /\ re_match_items(items, Tail(s)))
         ELSE /\ s # << >>
              /\ ReItemMatches(item, Head(s))
              /\ re_match_items(Tail(items), Tail(s))

\* re.compile(pattern).match(s) for a pattern that ends with ReSuffix
re_match(pattern, s) ==
    re_match_items(re_parse(SubSeq(pattern, 1, Len(pattern) - Len(ReSuffix))), s)

\* resolve_wildcards_labone: the pattern built from the path
node_raw(path) ==
    str_replace(
        str_replace(re_escape(path), <<"/", "\\", "*", "/">>,
                    <<"/", "[", "^", "/", "]", "*", "/">>),
        <<"/", "\\", "*">>, <<"/", "*">>)
    \o ReSuffix

\* A resolver that compares characters instead of segments: the nodes that
\* start with the path.
resolve_wildcards_startswith(path, nodes) ==
    LET Matches(n) == StartsWith(n, path) IN SelectSeq(nodes, Matches)

resolve_wildcards_labone(path, nodes) ==
    LET pattern == node_raw(path)
        Matches(n) == re_match(pattern, n)
    IN  SelectSeq(nodes, Matches)

\* ------------------------------------------------------------------------
\* Values and their encoding
\* ------------------------------------------------------------------------

IntValue(n) == [type |-> "int", v |-> n]
TriggerSampleValue == [type |-> "TriggerSample", v |-> 0]

\* The default of self._memory.get in get: a Python str.
NotFoundValue == [type |-> "str", v |-> "not found in mock memory"]

\* Values a caller passes to set and to set_with_expression.
CallValues == {IntValue(7), IntValue(8), TriggerSampleValue}
ExpressionValues == {IntValue(7), TriggerSampleValue}

NoWire == [tag |-> "none", v |-> 0]

\* ------------------------------------------------------------------------
\* Value codec: capnp values to Python values and back
\* ------------------------------------------------------------------------

\* Python None, and the absence of an extra header.
NoneValue == [type |-> "NoneType", v |-> 0]
NoHeader == [present |-> FALSE]

\* A str is the sequence of its code points; a bytes object and the data
\* of a vector are sequences of numbers in 0..255.
StrValue(text) == [type |-> "str", v |-> text]
BytesValue(data) == [type |-> "bytes", v |-> data]
FloatValue(x) == [type |-> "float", v |-> x]
ComplexValue(re, im) == [type |-> "complex", v |-> [real |-> re, imag |-> im]]
NdArray(dtype, elems) ==
    [type |-> "ndarray", v |-> [dtype |-> dtype, elems |-> elems]]
CntSampleValue == [type |-> "CntSample", v |-> 0]
SHFDemodSampleValue == [type |-> "SHFDemodSample", v |-> 0]
ListValue == [type |-> "list", v |-> 0]

\* VectorValueType: the generic framings, and a device-specific framing
\* number that parse_shf_vector_data_struct rejects.
VECTOR_DATA == 67
BYTE_ARRAY == 7
UnknownShfType == 69

\* VectorElementType(number): the member of a wire number; a number
\* outside the enumeration raises ValueError.
VectorElementType == (0 :> "UINT8") @@ (2 :> "UINT32") @@ (6 :> "STRING")

\* member.value
VectorElementTypeValue(member) ==
    CHOOSE n \in DOMAIN VectorElementType : VectorElementType[n] = member

\* The item size of member.to_numpy_type(), for the numeric members.
ItemSize == [UINT8 |-> 1, UINT32 |-> 4]

\* One array element from its bytes and back, in native (little endian)
\* layout.
RECURSIVE ElementFromBytes(_)
ElementFromBytes(bytes) ==
    IF bytes = << >> THEN 0
    ELSE Head(bytes) + 256 * ElementFromBytes(Tail(bytes))

RECURSIVE ElementToBytes(_, _)
ElementToBytes(n, size) ==
    IF size = 0 THEN << >>
    ELSE <<n % 256>> \o ElementToBytes(n \div 256, size - 1)

\* ndarray.tobytes()
RECURSIVE tobytes(_, _)
tobytes(elems, size) ==
    IF elems = << >> THEN << >>
    ELSE ElementToBytes(Head(elems), size) \o tobytes(Tail(elems), size)

DecodeReturn(value, header) ==
    [raised |-> FALSE, error |-> "", value |-> value, extra_header |-> header]
DecodeRaise(error) ==
    [raised |-> TRUE, error |-> error, value |-> NoneValue,
     extra_header |-> NoHeader]

\* np.frombuffer(data, dtype=member.to_numpy_type()): the elements of the
\* buffer, or ValueError when the buffer size is not a multiple of the
\* element size.
np_frombuffer(data, member) ==
    LET size == ItemSize[member] IN
    IF Len(data) % size # 0 THEN DecodeRaise("ValueError")
    ELSE DecodeReturn(
           NdArray(member,
                   [i \in 1..(Len(data) \div size) |->
                      ElementFromBytes(
                        SubSeq(data, (i - 1) * size + 1, i * size))]),
           NoHeader)

\* A decoding of text that hands out an extra header.
bytes_decode_with_header(data) ==
    DecodeReturn(StrValue(data), [present |-> TRUE, data |-> << >>])

\* bytes.decode(): the text of UTF-8 data. The byte 255 occurs in no
\* UTF-8 encoding; the other bytes used here are ASCII.
bytes_decode(data) ==
    IF \E i \in 1..Len(data) : data[i] >= 128
    THEN DecodeRaise("UnicodeDecodeError")
    ELSE DecodeReturn(StrValue(data), NoHeader)

\* get_header_length: the header length in bytes, from the header length
\* in 32 bit words held in the low 16 bits of extraHeaderInfo.
get_header_length(vector_data) == (vector_data.extraHeaderInfo % 65536) * 4

\* A device-specific framing number that parse_shf_vector_data_struct
\* knows.
KnownShfType == 71

\* parse_shf_vector_data_struct: for a framing it knows, the header read
\* from the front of the data and the rest of the data as an array of the
\* declared element type; ValueError for a framing it does not know.
parse_shf_vector_data_struct(vector_data) ==
    IF vector_data.valueType # KnownShfType THEN DecodeRaise("ValueError")
    ELSE LET bytes_to_skip == get_header_length(vector_data)
             parsed == np_frombuffer(Drop(vector_data.data, bytes_to_skip),
                                     VectorElementType[
                                         vector_data.vectorElementType])
         IN  IF parsed.raised THEN parsed
             ELSE DecodeReturn(
                    parsed.value,
                    [present |-> TRUE,
                     data |-> Take(vector_data.data, bytes_to_skip)])

\* _capnp_vector_to_value
_capnp_vector_to_value(vector_data) ==
    LET raw_data == vector_data.data IN
    IF vector_data.vectorElementType \notin DOMAIN VectorElementType
    THEN DecodeRaise("ValueError")
    ELSE
    LET element_type == VectorElementType[vector_data.vectorElementType] IN
    IF vector_data.valueType \notin {VECTOR_DATA, BYTE_ARRAY}
    THEN LET parsed == parse_shf_vector_data_struct(vector_data)
             bytes_to_skip == get_header_length(vector_data)
         IN  IF parsed.raised /\ parsed.error = "ValueError"
             THEN np_frombuffer(Drop(raw_data, bytes_to_skip), element_type)
             ELSE parsed
    ELSE IF element_type = "STRING" THEN bytes_decode(raw_data)
    ELSE np_frombuffer(raw_data, element_type)

\* The tags of the capnp Value union.
WireTags ==
    {"int64", "double", "complex", "string", "vectorData", "cntSample",
     "triggerSample", "none"}

\* _capnp_value_to_python_value
_capnp_value_to_python_value(capnp_value) ==
    LET capnp_type == capnp_value.tag IN
    CASE capnp_type = "int64" ->
             DecodeReturn(IntValue(capnp_value.v), NoHeader)
      [] capnp_type = "double" ->
             DecodeReturn(FloatValue(capnp_value.v), NoHeader)
      [] capnp_type = "complex" ->
             DecodeReturn(ComplexValue(capnp_value.v.real, capnp_value.v.imag),
                          NoHeader)
      [] capnp_type = "string" ->
             DecodeReturn(StrValue(capnp_value.v), NoHeader)
      [] capnp_type = "vectorData" -> _capnp_vector_to_value(capnp_value.v)
      [] capnp_type = "cntSample" ->
             DecodeReturn([type |-> "CntSample", v |-> capnp_value.v], NoHeader)
      [] capnp_type = "triggerSample" ->
             DecodeReturn([type |-> "TriggerSample", v |-> capnp_value.v],
                          NoHeader)
      [] capnp_type = "none" -> DecodeReturn(NoneValue, NoHeader)
      [] OTHER -> DecodeRaise("ValueError: Unknown capnp type")

EncodeReturn(wire) == [raised |-> FALSE, error |-> "", wire |-> wire]
EncodeRaise(error) == [raised |-> TRUE, error |-> error, wire |-> NoWire]

\* ValueError(f"The provided value has an invalid type: {type(value)}")
InvalidType(value) ==
    "ValueError: The provided value has an invalid type: " \o value.type

\* AttributeError(f"'{type(obj).__name__}' object has no attribute
\* '{name}'"): the exception of obj.name on an object without it.
NoAttribute(obj, name) ==
    "AttributeError: '" \o obj.type \o "' object has no attribute '"
        \o name \o "'"

VectorData(valueType, vectorElementType, data) ==
    [tag |-> "vectorData",
     v |-> [valueType |-> valueType, extraHeaderInfo |-> 0,
            vectorElementType |-> vectorElementType, data |-> data]]

\* _value_from_python_types without its first branch: a bool is not a
\* numpy integer, so it reaches the final else.
_value_from_python_types_no_bool(value) ==
    CASE value.type = "int" -> EncodeReturn([tag |-> "int64", v |-> value.v])
      [] value.type = "float" ->
             EncodeReturn([tag |-> "double", v |-> value.v])
      [] value.type = "complex" ->
             EncodeReturn([tag |-> "complex",
                           v |-> [real |-> value.v.real,
                                  imag |-> value.v.imag]])
      [] value.type = "str" -> EncodeReturn([tag |-> "string", v |-> value.v])
      [] value.type = "bytes" ->
             EncodeReturn(VectorData(BYTE_ARRAY,
                                     VectorElementTypeValue("UINT8"), value.v))
      [] value.type = "ndarray" ->
             EncodeReturn(
               VectorData(VECTOR_DATA, VectorElementTypeValue(value.v.dtype),
                          tobytes(value.v.elems, ItemSize[value.v.dtype])))
      [] OTHER -> EncodeRaise(InvalidType(value))

\* _value_from_python_types
_value_from_python_types(value) ==
    CASE value.type = "bool" ->
             EncodeReturn([tag |-> "int64", v |-> IF value.v THEN 1 ELSE 0])
      [] value.type = "int" -> EncodeReturn([tag |-> "int64", v |-> value.v])
      [] value.type = "float" ->
             EncodeReturn([tag |-> "double", v |-> value.v])
      [] value.type = "complex" ->
             EncodeReturn([tag |-> "complex",
                           v |-> [real |-> value.v.real,
                                  imag |-> value.v.imag]])
      [] value.type = "str" -> EncodeReturn([tag |-> "string", v |-> value.v])
      [] value.type = "bytes" ->
             EncodeReturn(VectorData(BYTE_ARRAY,
                                     VectorElementTypeValue("UINT8"), value.v))
      [] value.type = "ndarray" ->
             EncodeReturn(
               VectorData(VECTOR_DATA, VectorElementTypeValue(value.v.dtype),
                          tobytes(value.v.elems, ItemSize[value.v.dtype])))
      [] OTHER -> EncodeRaise(InvalidType(value))

\* _value_from_python_types_dict, called without an extra header: the
\* capnp dictionary of the value, or the exception the function raises.
\* For an array the entry vectorData of the dictionary is a bytes object
\* (the record with the one field bytes), not a vector record. The
\* function reads annotated_value.value first: an object without that
\* attribute (a bare value) gives the AttributeError of the attribute
\* access.
_value_from_python_types_dict(annotated_value) ==
    IF "value" \notin DOMAIN annotated_value
    THEN EncodeRaise(NoAttribute(annotated_value, "value"))
    ELSE
    LET value == annotated_value.value IN
    CASE value.type = "ndarray" ->
             EncodeReturn(
               [tag |-> "vectorData",
                v |-> [bytes |-> tobytes(value.v.elems,
                                         ItemSize[value.v.dtype])]])
      [] value.type = "SHFDemodSample" ->
             EncodeRaise("ValueError: SHFDemodSample requires extra_header")
      [] value.type \in {"TriggerSample", "CntSample"} ->
             EncodeRaise("NotImplementedError")
      [] value.type = "bool" ->
             EncodeReturn([tag |-> "int64", v |-> IF value.v THEN 1 ELSE 0])
      [] value.type = "int" -> EncodeReturn([tag |-> "int64", v |-> value.v])
      [] value.type = "float" ->
             EncodeReturn([tag |-> "double", v |-> value.v])
      [] value.type = "complex" ->
             EncodeReturn([tag |-> "complex",
                           v |-> [real |-> value.v.real,
                                  imag |-> value.v.imag]])
      [] value.type = "str" -> EncodeReturn([tag |-> "string", v |-> value.v])
      [] value.type = "bytes" ->
             EncodeReturn(VectorData(BYTE_ARRAY,
                                     VectorElementTypeValue("UINT8"), value.v))
      [] OTHER -> EncodeRaise(InvalidType(value))

\* The data of the vectors decoded and the bytes objects encoded.
Payloads ==
    {<< >>, <<1>>, <<72, 105>>, <<255>>, <<1, 0, 0>>, <<1, 0, 0, 0>>,
     <<1, 0, 0, 0, 2, 0>>, <<1, 0, 0, 0, 2, 0, 0, 0>>}

\* The capnp vectors decoded: generic and unknown device-specific framing,
\* element types inside and outside the enumeration, with and without a
\* declared header. A device-specific vector of strings is left out.
WireVectors ==
    {[valueType |-> vt, extraHeaderInfo |-> info, vectorElementType |-> et,
      data |-> data] :
       vt \in {VECTOR_DATA, BYTE_ARRAY, UnknownShfType, KnownShfType},
       info \in 0..2, et \in {0, 2, 6, 9}, data \in Payloads}
    \ [valueType : {UnknownShfType, KnownShfType}, extraHeaderInfo : 0..2,
       vectorElementType : {6}, data : Payloads]

\* The capnp values decoded, grouped by the kind of their content;
\* "illegal" stands for a tag outside the union.
WireValues ==
    << {[tag |-> "int64", v |-> n] : n \in {-1, 0, 42}}
         \cup {[tag |-> "double", v |-> n] : n \in {0, 42}}
         \cup {[tag |-> tag, v |-> 0] :
                 tag \in {"cntSample", "triggerSample", "none", "illegal"}},
       {[tag |-> "complex", v |-> [real |-> 1, imag |-> 2]]},
       {[tag |-> "string", v |-> text] : text \in {<< >>, <<72, 105>>}},
       {[tag |-> "vectorData", v |-> vd] : vd \in WireVectors} >>

\* The Python values encoded, grouped by the kind of their content: one
\* or more of every variant of Value, a bool, and a list, which is outside
\* Value.
PythonValues ==
    << {IntValue(n) : n \in {-1, 0, 42}}
         \cup {FloatValue(0), FloatValue(42), SHFDemodSampleValue,
               TriggerSampleValue, CntSampleValue, NoneValue, ListValue},
       {[type |-> "bool", v |-> b] : b \in BOOLEAN},
       {ComplexValue(1, 2)},
       {StrValue(text) : text \in {<< >>, <<72, 105>>}}
         \cup {BytesValue(data) : data \in Payloads},
       {NdArray("UINT8", elems) : elems \in {<< >>, <<1>>, <<1, 255>>}}
         \cup {NdArray("UINT32", elems) :
                 elems \in {<< >>, <<1>>, <<513, 2>>}} >>

\* ------------------------------------------------------------------------
\* State
\* ------------------------------------------------------------------------

\* Streaming handles of subscribers.
Handles == {"h1", "h2"}

\* The set calls that may wait for their deliveries at the same time (other
\* calls run while they wait).
Slots == {1}

\* The start calls made on one MockServer (one per caller).
MaxStarts == 3
Callers == 1..MaxStarts

\* self._server = None
NoServer == 0

VARIABLES
    _server,                    \* MockServer._server: None, or the server
                                \* (named after the start call that made it)
    starts,                     \* where each call of MockServer.start is
    paths_to_info,              \* self._paths_to_info: its keys, in order
    memory,                     \* self._memory: path -> value
    path_to_streaming_handles,  \* self._path_to_streaming_handles
    clock,                      \* CLOCK_MONOTONIC
    tasks,                      \* the set calls suspended in asyncio.gather
    inflight,                   \* sendValues calls that have not completed
    nsets,                      \* set / set_with_expression calls started
    nsubs,                      \* subscribe_logic calls made
    lastSet,                    \* history: per path, the value of the last
                                \* set call and the number of set calls
    last                        \* the step just taken and what it returned

vars ==
    <<_server, starts, paths_to_info, memory, path_to_streaming_handles, clock, tasks,
      inflight, nsets, nsubs, lastSet, last>>

Unset == [type |-> "unset", v |-> 0]
NoResponse == [path |-> << >>, value |-> Unset, timestamp |-> 0]
NoMessage == [value |-> NoWire, path |-> << >>, timestamp |-> 0]
\* The asyncio.gather of a set: the sendValues calls it made, those still
\* under way, those completed, whether one has raised, and the handles that
\* were subscribed to the path when the set was called.
NoGather ==
    [sent |-> << >>, pending |-> {}, done |-> {}, failed |-> FALSE,
     subscribed |-> << >>]
Idle ==
    [op |-> "idle", arg |-> NoResponse, call |-> 0, response |-> NoResponse,
     gather |-> NoGather, todo |-> << >>, acc |-> << >>, nth |-> 0]

\* AnnotatedValue(value=..., path=...) with its timestamp
AnnotatedValue(path, value, timestamp) ==
    [path |-> path, value |-> value, timestamp |-> timestamp]

\* _get_timestamp: time.clock_gettime_ns(time.CLOCK_MONOTONIC), the
\* reading of the clock now.
_get_timestamp(clk) == clk

\* dict.get(key, default)
DictGet(dict, key, default) ==
    IF key \in DOMAIN dict THEN dict[key] ELSE default

\* dict[key] = value
DictSet(dict, key, value) ==
    [k \in DOMAIN dict \cup {key} |-> IF k = key THEN value ELSE dict[k]]

\* ------------------------------------------------------------------------
\* The operations of AutomaticSessionFunctionality
\* ------------------------------------------------------------------------

\* list_nodes that takes the path as the pattern, without "/*" at its end.
list_nodes_exact_pattern(registry, path) ==
    IF path = << >> THEN registry
    ELSE LET Matches(k) == fnmatch(k, path) IN SelectSeq(registry, Matches)

\* list_nodes: fnmatch.filter of the registered paths
list_nodes(registry, path) ==
    IF path = << >> THEN registry
    ELSE LET pattern == IF path[Len(path)] # "*"
                        THEN path \o <<"/", "*">>
                        ELSE path
             Matches(k) == fnmatch(k, pattern)
         IN  SelectSeq(registry, Matches)

\* list_nodes_info: the items of the registry whose key matches (the keys)
list_nodes_info(registry, path) ==
    IF path = << >> THEN registry
    ELSE LET pattern == IF path[Len(path)] # "*"
                        THEN path \o <<"/", "*">>
                        ELSE path
             Matches(k) == fnmatch(k, pattern)
         IN  SelectSeq(registry, Matches)

\* The dictionary after dict.setdefault(key, default): a missing key gets
\* an entry.
dict_after_setdefault(dict, key, default) ==
    IF key \in DOMAIN dict THEN dict ELSE DictSet(dict, key, default)

\* The dictionary after dict.get(key, default): as it was.
dict_after_get(dict, key, default) == dict

\* self._memory after one get per path.
RECURSIVE memory_after_gets(_, _)
memory_after_gets(mem, paths) ==
    IF paths = << >> THEN mem
    ELSE memory_after_gets(dict_after_get(mem, Head(paths), NotFoundValue),
                           Tail(paths))

\* get with the default of dict.get left out: a missing key gives None.
get_default_none(mem, path, timestamp) ==
    AnnotatedValue(path, DictGet(mem, path, [type |-> "none", v |-> 0]),
                   timestamp)

\* get without line 156: the response keeps the timestamp it was made
\* with, not a reading of the clock.
get_unstamped(mem, path, timestamp) ==
    AnnotatedValue(path, DictGet(mem, path, NotFoundValue), 0)

\* get: the stored value or the default, stamped with the clock reading
get(mem, path, timestamp) ==
    AnnotatedValue(path, DictGet(mem, path, NotFoundValue), timestamp)

\* The paths get_with_expression / set_with_expression work on:
\* resolve_wildcards_labone(expression, await self.list_nodes(expression)),
\* tabulated once for the registries and expressions of the model.
ResolvedTable ==
    [registry \in Registries |->
        [expression \in CallExpressions |->
            resolve_wildcards_labone(expression,
                                     list_nodes(registry, expression))]]

\* The resolution with the expression itself as the path to work on when
\* no registered path is found.
ResolvedPaths_or_expression(registry, expression) ==
    IF ResolvedTable[registry][expression] = << >>
    THEN <<expression>>
    ELSE ResolvedTable[registry][expression]

ResolvedPaths(registry, expression) == ResolvedTable[registry][expression]

ListNodesTable ==
    [registry \in Registries |->
        [expression \in CallExpressions |-> list_nodes(registry, expression)]]

ListNodesInfoTable ==
    [registry \in Registries |->
        [expression \in CallExpressions |->
            list_nodes_info(registry, expression)]]

\* get_with_expression: one get per resolved path, in order
get_with_expression(registry, mem, clk, expression) ==
    LET paths == ResolvedPaths(registry, expression) IN
    [i \in DOMAIN paths |-> get(mem, paths[i], _get_timestamp(clk))]

\* The store as self._memory.setdefault(value.path, value.value): a value
\* already stored is kept.
store_keep_first(mem, value) ==
    IF value.path \in DOMAIN mem THEN mem
    ELSE DictSet(mem, value.path, value.value)

\* The store as self._memory = {value.path: value.value}: the other paths
\* are dropped.
store_reset(mem, value) == DictSet(<< >>, value.path, value.value)

\* self._memory[value.path] = value.value
store(mem, value) == DictSet(mem, value.path, value.value)

\* set, up to its await, with the update sent to the handles registered on
\* the first segment of value.path as well.
set_begin_prefixes(mem, clk, handles, value) ==
    LET response == AnnotatedValue(value.path, value.value,
                                   _get_timestamp(clk))
        encoded == _value_from_python_types_dict(response)
    IN  [memory |-> store(mem, value),
         response |-> response,
         encoded |-> encoded,
         capnp_response |-> [value |-> encoded.wire,
                             path |-> response.path,
                             timestamp |-> response.timestamp],
         handles |-> DictGet(handles, value.path, << >>)
                         \o DictGet(handles, Take(value.path, 2), << >>)]

\* set with the update encoded before the store: the value is stored only
\* when it can be encoded.
set_begin_encode_first(mem, clk, handles, value) ==
    LET response == AnnotatedValue(value.path, value.value,
                                   _get_timestamp(clk))
        encoded == _value_from_python_types_dict(response)
    IN  [memory |-> IF encoded.raised THEN mem ELSE store(mem, value),
         response |-> response,
         encoded |-> encoded,
         capnp_response |-> [value |-> encoded.wire,
                             path |-> response.path,
                             timestamp |-> response.timestamp],
         handles |-> DictGet(handles, value.path, << >>)]

\* set, up to its await: the store, the timestamp, the encoded update and
\* the handles the update goes to.
set_begin(mem, clk, handles, value) ==
    LET response == AnnotatedValue(value.path, value.value,
                                   _get_timestamp(clk))
        encoded == _value_from_python_types_dict(response)
    IN  [memory |-> store(mem, value),
         response |-> response,
         encoded |-> encoded,
         capnp_response |-> [value |-> encoded.wire,
                             path |-> response.path,
                             timestamp |-> response.timestamp],
         handles |-> DictGet(handles, value.path, << >>)]

\* The set calls one coroutine makes without giving up the event loop: set
\* after set over the paths of todo, until a set raises, a set waits for
\* its deliveries (asyncio.gather of at least one sendValues) or todo is
\* done. acc are the responses so far.
RECURSIVE RunSets(_, _, _, _, _, _)
RunSets(mem, clk, acc, handles, value, todo) ==
    IF todo = << >>
    THEN [status |-> "returned", memory |-> mem, acc |-> acc, response |-> NoResponse, handles |-> << >>,
          capnp_response |-> NoMessage, todo |-> << >>, error |-> ""]
    ELSE LET b == set_begin(mem, clk, handles,
                            AnnotatedValue(Head(todo), value, 0))
         IN  IF b.encoded.raised
             THEN [status |-> "raised", memory |-> b.memory, acc |-> acc,
                   response |-> b.response, handles |-> << >>,
                   capnp_response |-> NoMessage, todo |-> Tail(todo),
                   error |-> b.encoded.error]
             ELSE IF b.handles = << >>
             THEN RunSets(b.memory, clk, Append(acc, b.response), handles,
                          value, Tail(todo))
             ELSE [status |-> "suspended", memory |-> b.memory, acc |-> acc,
                   response |-> b.response, handles |-> b.handles,
                   capnp_response |-> b.capnp_response, todo |-> Tail(todo),
                   error |-> ""]

\* The paths RunSets stored a value at, after the first n responses of acc.
NewlyStored(r, n) ==
    {r.acc[i].path : i \in (n + 1)..Len(r.acc)}
    \cup (IF r.status = "returned" THEN {} ELSE {r.response.path})

\* The step just taken: the operation and its argument, how it ended
\* ("ok", "raised", or "suspended" in its gather), what it returned, the
\* number of the set call it belongs to and, when a set ends, its gather.
Step(op, arg, status, ret, call, error, gather) ==
    [op |-> op, arg |-> arg, status |-> status, ret |-> ret, call |-> call,
     error |-> error, gather |-> gather]

\* The number of set calls made on a path so far.
SetCount(log, path) == IF path \in DOMAIN log THEN log[path].count ELSE 0

\* A set waits for its deliveries: the coroutine is parked in slot s with
\* its sendValues calls under way. nth tells which set call on its path
\* it is.
Park(op, arg, call, r, s) ==
    /\ tasks' = [tasks EXCEPT ![s] =
            [op |-> op, arg |-> arg, call |-> call,
             response |-> r.response,
             gather |-> [sent |-> [i \in DOMAIN r.handles |->
                                     [handle |-> r.handles[i],
                                      message |-> r.capnp_response]],
                         pending |-> DOMAIN r.handles, done |-> {},
                         failed |-> FALSE,
                         subscribed |->
                             DictGet(path_to_streaming_handles,
                                     r.response.path, << >>)],
             todo |-> r.todo, acc |-> r.acc,
             nth |-> SetCount(lastSet', r.response.path)]]
    /\ inflight' = inflight \cup
            {[call |-> call, path |-> r.response.path, idx |-> i,
              handle |-> r.handles[i], message |-> r.capnp_response]
             : i \in DOMAIN r.handles}
    /\ last' = Step(op, arg, "suspended", << >>, call, "", NoGather)

\* A run of set calls ends: the responses, or the exception, go to the
\* caller. gather is the last asyncio.gather the call has waited for.
Return(op, arg, call, r, gather) ==
    /\ inflight' = inflight
    /\ last' = Step(op, arg,
                    IF r.status = "raised" THEN "raised" ELSE "ok",
                    IF r.status = "raised" THEN << >> ELSE r.acc,
                    call, r.error, gather)

\* The history after set calls with this value on these paths.
Logged(paths, value) ==
    [p \in DOMAIN lastSet |->
        IF p \in paths
        THEN [value |-> value, count |-> lastSet[p].count + 1]
        ELSE lastSet[p]]

FreeSlot(s) ==
    /\ tasks[s] = Idle
    /\ \A t \in Slots : t < s => tasks[t] # Idle

\* A call of set (op = "set", todo = its path) or of set_with_expression
\* (todo = the resolved paths). It runs to its end at once, or to the first
\* set that has deliveries to wait for.
StartSets(op, arg, todo) ==
    /\ nsets + nsubs < MaxCalls
    /\ LET r == RunSets(memory, clock, << >>, path_to_streaming_handles,
                        arg.value, todo)
       IN  /\ memory' = r.memory
           /\ lastSet' = Logged(NewlyStored(r, 0), arg.value)
           /\ IF r.status = "suspended"
              THEN \E s \in Slots :
                       FreeSlot(s) /\ Park(op, arg, nsets + 1, r, s)
              ELSE /\ Return(op, arg, nsets + 1, r, NoGather)
                   /\ tasks' = tasks
    /\ nsets' = nsets + 1
    /\ UNCHANGED <<_server, starts, paths_to_info, path_to_streaming_handles, clock, nsubs>>

Get(path) ==
    /\ last' = Step("get", path, "ok",
                    <<get(memory, path, _get_timestamp(clock))>>, 0, "",
                    NoGather)
    /\ memory' = dict_after_get(memory, path, NotFoundValue)
    /\ UNCHANGED <<_server, starts, paths_to_info, path_to_streaming_handles,
                   clock, tasks, inflight, nsets, nsubs, lastSet>>

GetWithExpression(expression) ==
    /\ last' = Step("get_with_expression", expression, "ok",
                    get_with_expression(paths_to_info, memory, clock,
                                        expression),
                    0, "", NoGather)
    /\ memory' = memory_after_gets(memory,
                                   ResolvedPaths(paths_to_info, expression))
    /\ UNCHANGED <<_server, starts, paths_to_info, path_to_streaming_handles,
                   clock, tasks, inflight, nsets, nsubs, lastSet>>

ListNodes(expression) ==
    /\ last' = Step("list_nodes", expression, "ok",
                    ListNodesTable[paths_to_info][expression], 0, "",
                    NoGather)
    /\ UNCHANGED <<_server, starts, paths_to_info, memory, path_to_streaming_handles, clock,
                   tasks, inflight, nsets, nsubs, lastSet>>

ListNodesInfo(expression) ==
    /\ last' = Step("list_nodes_info", expression, "ok",
                    ListNodesInfoTable[paths_to_info][expression], 0, "",
                    NoGather)
    /\ UNCHANGED <<_server, starts, paths_to_info, memory, path_to_streaming_handles, clock,
                   tasks, inflight, nsets, nsubs, lastSet>>

Set(path, value) ==
    StartSets("set", AnnotatedValue(path, value, 0), <<path>>)

SetWithExpression(expression, value) ==
    StartSets("set_with_expression", AnnotatedValue(expression, value, 0),
              ResolvedPaths(paths_to_info, expression))

\* The registration as self._path_to_streaming_handles[path] =
\* [streaming_handle]: the handles registered before are dropped.
subscribe_logic_replace(handles, path, streaming_handle) ==
    DictSet(handles, path, <<streaming_handle>>)

\* subscribe_logic: the handle is appended to the list of the path
subscribe_logic(handles, path, streaming_handle) ==
    DictSet(handles, path,
            Append(DictGet(handles, path, << >>), streaming_handle))

Subscribe(path, streaming_handle) ==
    /\ nsets + nsubs < MaxCalls
    /\ nsubs' = nsubs + 1
    /\ path_to_streaming_handles' =
           subscribe_logic(path_to_streaming_handles, path, streaming_handle)
    /\ last' = Step("subscribe", [path |-> path, handle |-> streaming_handle],
                    "ok", << >>, 0, "", NoGather)
    /\ UNCHANGED <<_server, starts, paths_to_info, memory, clock, tasks, inflight,
                   nsets, lastSet>>

\* The slot of the set call that waits for delivery d, if it still waits.
Waiting(d) ==
    {s \in Slots : tasks[s].call = d.call /\ tasks[s].response.path = d.path
                   /\ d.idx \in tasks[s].gather.pending
                   /\ tasks[s].op # "idle"}

\* A sendValues call completes: the handle has taken the update.
Deliver(d) ==
    /\ d \in inflight
    /\ inflight' = inflight \ {d}
    /\ tasks' = [s \in Slots |->
                    IF s \in Waiting(d)
                    THEN [tasks[s] EXCEPT !.gather.pending = @ \ {d.idx},
                                          !.gather.done = @ \cup {d.idx}]
                    ELSE tasks[s]]
    /\ last' = Step("sendValues", d, "ok", << >>, d.call, "", NoGather)
    /\ UNCHANGED <<_server, starts, paths_to_info, memory, path_to_streaming_handles, clock,
                   nsets, nsubs, lastSet>>

\* A sendValues call fails: asyncio.gather hands the first exception of its
\* awaitables to the waiting set at once and lets the others run on.
DeliverFail(d) ==
    /\ d \in inflight
    /\ inflight' = inflight \ {d}
    /\ tasks' = [s \in Slots |->
                    IF s \in Waiting(d)
                    THEN [tasks[s] EXCEPT !.gather.pending = @ \ {d.idx},
                                          !.gather.failed = TRUE]
                    ELSE tasks[s]]
    /\ last' = Step("sendValues", d, "raised", << >>, d.call, "delivery",
                    NoGather)
    /\ UNCHANGED <<_server, starts, paths_to_info, memory, path_to_streaming_handles, clock,
                   nsets, nsubs, lastSet>>

\* The wait as asyncio.wait(..., return_when=FIRST_COMPLETED): done as soon
\* as one sendValues call has ended.
gather_done_first_completed(g) == g.failed \/ g.done # {} \/ g.pending = {}

\* await asyncio.gather(...): the future of the gather is done when one of
\* its awaitables has raised or all of them have completed.
gather_done(g) == g.failed \/ g.pending = {}

\* The resumption with the store undone when the gather has raised: the
\* entry of the path is deleted before the exception goes to the caller.
Resume_rollback(s) ==
    LET f == tasks[s] IN
    /\ f.op # "idle"
    /\ gather_done(f.gather)
    /\ IF f.gather.failed
       THEN /\ tasks' = [tasks EXCEPT ![s] = Idle]
            /\ last' = Step(f.op, f.arg, "raised", << >>, f.call, "delivery",
                            f.gather)
            /\ memory' = [k \in DOMAIN memory \ {f.response.path} |->
                              memory[k]]
            /\ UNCHANGED <<inflight, lastSet>>
       ELSE LET r == RunSets(memory, clock, Append(f.acc, f.response),
                             path_to_streaming_handles, f.arg.value, f.todo)
            IN    /\ memory' = r.memory
                  /\ lastSet' = Logged(NewlyStored(r, Len(f.acc) + 1),
                                       f.arg.value)
                  /\ IF r.status = "suspended"
                     THEN Park(f.op, f.arg, f.call, r, s)
                     ELSE /\ Return(f.op, f.arg, f.call, r, f.gather)
                          /\ tasks' = [tasks EXCEPT ![s] = Idle]
    /\ UNCHANGED <<_server, starts, paths_to_info, path_to_streaming_handles, clock, nsets,
                   nsubs>>

\* The event loop resumes a set whose gather is done: it raises the
\* exception of the gather, or returns its response; a
\* set_with_expression then goes on with its next paths.
Resume(s) ==
    LET f == tasks[s] IN
    /\ f.op # "idle"
    /\ gather_done(f.gather)
    /\ IF f.gather.failed
       THEN /\ tasks' = [tasks EXCEPT ![s] = Idle]
            /\ last' = Step(f.op, f.arg, "raised", << >>, f.call, "delivery",
                            f.gather)
            /\ UNCHANGED <<memory, inflight, lastSet>>
       ELSE LET r == RunSets(memory, clock, Append(f.acc, f.response),
                             path_to_streaming_handles, f.arg.value, f.todo)
            IN    /\ memory' = r.memory
                  /\ lastSet' = Logged(NewlyStored(r, Len(f.acc) + 1),
                                       f.arg.value)
                  /\ IF r.status = "suspended"
                     THEN Park(f.op, f.arg, f.call, r, s)
                     ELSE /\ Return(f.op, f.arg, f.call, r, f.gather)
                          /\ tasks' = [tasks EXCEPT ![s] = Idle]
    /\ UNCHANGED <<_server, starts, paths_to_info, path_to_streaming_handles, clock, nsets,
                   nsubs>>

\* Time passes between two steps of the event loop.
Tick ==
    /\ clock < MaxClock
    /\ clock' = clock + 1
    /\ last' = Step("tick", << >>, "ok", << >>, 0, "", NoGather)
    /\ UNCHANGED <<_server, starts, paths_to_info, memory, path_to_streaming_handles, tasks,
                   inflight, nsets, nsubs, lastSet>>

Init ==
    /\ _server = NoServer
    /\ starts = [c \in Callers |-> "idle"]
    /\ paths_to_info \in Registries
    /\ memory = << >>
    /\ path_to_streaming_handles = << >>
    /\ clock = 0
    /\ tasks = [s \in Slots |-> Idle]
    /\ inflight = {}
    /\ nsets = 0
    /\ nsubs = 0
    /\ lastSet = [p \in StorePaths |-> [value |-> Unset, count |-> 0]]
    /\ last = Step("init", << >>, "ok", << >>, 0, "", NoGather)

\* The calls that change the emulator and the completion of their
\* deliveries.
Change ==
    \/ \E path \in CallPaths, value \in CallValues : Set(path, value)
    \/ \E expression \in SetExpressions, value \in ExpressionValues :
         SetWithExpression(expression, value)
    \/ \E path \in SubscribePaths, h \in Handles : Subscribe(path, h)
    \/ \E d \in inflight : Deliver(d)
    \/ \E d \in inflight : DeliverFail(d)
    \/ \E s \in Slots : Resume(s)

\* AnnotatedValue.from_capnp on the value of a message.
Decode(capnp_value) ==
    LET r == _capnp_value_to_python_value(capnp_value) IN
    /\ last' = Step("decode", capnp_value,
                    IF r.raised THEN "raised" ELSE "ok",
                    IF r.raised THEN << >> ELSE <<r.value, r.extra_header>>,
                    0, r.error, NoGather)
    /\ UNCHANGED <<_server, starts, paths_to_info, memory, path_to_streaming_handles, clock,
                   tasks, inflight, nsets, nsubs, lastSet>>

\* AnnotatedValue.to_capnp on a value: _value_from_python_types.
Encode(value) ==
    LET r == _value_from_python_types(value) IN
    /\ last' = Step("encode", value, IF r.raised THEN "raised" ELSE "ok",
                    IF r.raised THEN << >> ELSE <<r.wire>>, 0, r.error,
                    NoGather)
    /\ UNCHANGED <<_server, starts, paths_to_info, memory, path_to_streaming_handles, clock,
                   tasks, inflight, nsets, nsubs, lastSet>>

\* _value_from_python_types_dict on a value without an extra header.
EncodeDict(value) ==
    LET r == _value_from_python_types_dict(AnnotatedValue(pAX, value, 0)) IN
    /\ last' = Step("encode_dict", value, IF r.raised THEN "raised" ELSE "ok",
                    IF r.raised THEN << >> ELSE <<r.wire>>, 0, r.error,
                    NoGather)
    /\ UNCHANGED <<_server, starts, paths_to_info, memory, path_to_streaming_handles, clock,
                   tasks, inflight, nsets, nsubs, lastSet>>

\* A value encoded with _value_from_python_types and the message decoded
\* with _capnp_value_to_python_value.
RoundTrip(value) ==
    LET encoded == _value_from_python_types(value)
        r == IF encoded.raised THEN DecodeRaise(encoded.error)
             ELSE _capnp_value_to_python_value(encoded.wire)
    IN
    /\ last' = Step("round_trip", value, IF r.raised THEN "raised" ELSE "ok",
                    IF r.raised THEN << >> ELSE <<r.value, r.extra_header>>,
                    0, r.error, NoGather)
    /\ UNCHANGED <<_server, starts, paths_to_info, memory, path_to_streaming_handles, clock,
                   tasks, inflight, nsets, nsubs, lastSet>>

\* The codec applied to values and messages.
NextCodec ==
    \/ \E i \in DOMAIN WireValues :
         \E capnp_value \in WireValues[i] : Decode(capnp_value)
    \/ \E i \in DOMAIN PythonValues :
         \E value \in PythonValues[i] : Encode(value)
    \/ \E i \in DOMAIN PythonValues :
         \E value \in PythonValues[i] : EncodeDict(value)
    \/ \E i \in DOMAIN PythonValues :
         \E value \in PythonValues[i] : RoundTrip(value)

SpecCodec == Init /\ [][NextCodec]_vars

\* resolve_wildcards_labone applied to the path and the nodes of the
\* initial state.
Resolve ==
    /\ last.op = "input"
    /\ last' = Step("resolve", last.arg, "ok",
                    <<resolve_wildcards_labone(last.arg.path, last.arg.nodes)>>,
                    0, "", NoGather)
    /\ UNCHANGED <<_server, starts, paths_to_info, memory, path_to_streaming_handles, clock,
                   tasks, inflight, nsets, nsubs, lastSet>>

\* A path and a list of nodes to resolve it against.
InitResolve ==
    /\ _server = NoServer
    /\ starts = [c \in Callers |-> "idle"]
    /\ paths_to_info \in Registries
    /\ memory = << >>
    /\ path_to_streaming_handles = << >>
    /\ clock = 0
    /\ tasks = [s \in Slots |-> Idle]
    /\ inflight = {}
    /\ nsets = 0
    /\ nsubs = 0
    /\ lastSet = [p \in StorePaths |-> [value |-> Unset, count |-> 0]]
    /\ \E path \in ResolveExpressions, nodes \in NodeLists :
         last = Step("input", [path |-> path, nodes |-> nodes], "ok", << >>,
                     0, "", NoGather)

\* The nodes of the initial state are the keys of a dict: no key twice.
IsRegistry(nodes) ==
    \A i, j \in DOMAIN nodes : nodes[i] = nodes[j] => i = j

\* list_nodes_info and list_nodes of an emulator constructed with the
\* nodes of the initial state, called with its path, one after the other
\* in either order.
ListNodesInfoOf ==
    /\ last.op \in {"input", "list_nodes"}
    /\ IsRegistry(last.arg.nodes)
    /\ last' = Step("list_nodes_info", last.arg, "ok",
                    list_nodes_info(last.arg.nodes, last.arg.path), 0, "",
                    NoGather)
    /\ UNCHANGED <<_server, starts, paths_to_info, memory, path_to_streaming_handles, clock,
                   tasks, inflight, nsets, nsubs, lastSet>>

ListNodesOf ==
    /\ last.op \in {"input", "list_nodes_info"}
    /\ IsRegistry(last.arg.nodes)
    /\ last' = Step("list_nodes", last.arg, "ok",
                    list_nodes(last.arg.nodes, last.arg.path), 0, "",
                    NoGather)
    /\ UNCHANGED <<_server, starts, paths_to_info, memory, path_to_streaming_handles, clock,
                   tasks, inflight, nsets, nsubs, lastSet>>

NextResolve == Resolve \/ ListNodesInfoOf \/ ListNodesOf

SpecResolve == InitResolve /\ [][NextResolve]_vars

\* ------------------------------------------------------------------------
\* redirect: the path aliases of the node tree
\* ------------------------------------------------------------------------

\* The paths redirected and the alias maps: every map from some of the
\* paths to paths, maps with a self-redirect and with cycles included.
AliasPaths == {pA, pB, pAB, pZZ}
AliasMaps == UNION {[keys -> AliasPaths] : keys \in SUBSET AliasPaths}

\* A loop that replaces the path by its alias once and no further.
redirect_continues_once(current, visited, path_aliases) ==
    /\ current \in DOMAIN path_aliases
    /\ Cardinality(visited) = 1

\* A loop without the guard against paths it has been at.
redirect_continues_unguarded(current, visited, path_aliases) ==
    current \in DOMAIN path_aliases

\* The loop of redirect goes on: the current path has an alias, and the
\* alias is not a path the loop has been at.
redirect_continues(current, visited, path_aliases) ==
    /\ current \in DOMAIN path_aliases
    /\ path_aliases[current] \notin visited

\* A call of redirect at the head of its loop: the current path and the
\* paths the loop has been at.
RedirectAt(path, path_aliases, current, visited) ==
    Step("redirect", [path |-> path, path_aliases |-> path_aliases],
         "running", <<current, visited>>, 0, "", NoGather)

\* One turn of the loop: the current path is replaced by its alias.
RedirectStep ==
    /\ last.op = "redirect"
    /\ last.status = "running"
    /\ redirect_continues(last.ret[1], last.ret[2], last.arg.path_aliases)
    /\ LET target == last.arg.path_aliases[last.ret[1]] IN
       last' = RedirectAt(last.arg.path, last.arg.path_aliases, target,
                          last.ret[2] \cup {target})
    /\ UNCHANGED <<_server, starts, paths_to_info, memory, path_to_streaming_handles, clock,
                   tasks, inflight, nsets, nsubs, lastSet>>

\* The loop ends and redirect returns the current path.
RedirectReturn ==
    /\ last.op = "redirect"
    /\ last.status = "running"
    /\ ~redirect_continues(last.ret[1], last.ret[2], last.arg.path_aliases)
    /\ last' = Step("redirect", last.arg, "ok", <<last.ret[1]>>, 0, "",
                    NoGather)
    /\ UNCHANGED <<_server, starts, paths_to_info, memory, path_to_streaming_handles, clock,
                   tasks, inflight, nsets, nsubs, lastSet>>

\* redirect is called with a path on a tree with an alias map.
InitRedirect ==
    /\ _server = NoServer
    /\ starts = [c \in Callers |-> "idle"]
    /\ paths_to_info \in Registries
    /\ memory = << >>
    /\ path_to_streaming_handles = << >>
    /\ clock = 0
    /\ tasks = [s \in Slots |-> Idle]
    /\ inflight = {}
    /\ nsets = 0
    /\ nsubs = 0
    /\ lastSet = [p \in StorePaths |-> [value |-> Unset, count |-> 0]]
    /\ \E path \in AliasPaths, path_aliases \in AliasMaps :
         last = RedirectAt(path, path_aliases, path, {path})

NextRedirect == RedirectStep \/ RedirectReturn

SpecRedirect == InitRedirect /\ [][NextRedirect]_vars

\* The loop of a call is not held up for ever.
SpecRedirectFair == SpecRedirect /\ WF_vars(NextRedirect)

\* ------------------------------------------------------------------------
\* Session.connect_device: the root of the node tree of a device
\* ------------------------------------------------------------------------

\* NodeTreeManager._partially_explored_structure: the nested dictionary of
\* the paths; its keys are the first segments of the paths, each once, in
\* the order in which they first occur.
RECURSIVE FirstSegments(_, _)
FirstSegments(nodes, acc) ==
    IF nodes = << >> THEN acc
    ELSE LET first == Segments(Head(nodes))[1] IN
         FirstSegments(Tail(nodes),
                       IF first \in Range(acc) THEN acc
                       ELSE Append(acc, first))

partially_explored_structure(path_to_info) == FirstSegments(path_to_info, << >>)

\* connect_device that collapses the prefix whether asked to or not.
connect_device_always_hides(path_to_info, hide_kernel_prefix) ==
    LET keys == partially_explored_structure(path_to_info) IN
    IF Len(keys) # 1 THEN [path_segments |-> << >>]
    ELSE [path_segments |-> <<keys[1]>>]

\* connect_device: the path segments of the BaseInstrument it returns.
connect_device(path_to_info, hide_kernel_prefix) ==
    LET keys == partially_explored_structure(path_to_info)
        has_common_prefix == Len(keys) = 1
    IN  IF ~hide_kernel_prefix \/ ~has_common_prefix
        THEN [path_segments |-> << >>]
        ELSE [path_segments |-> <<keys[1]>>]

ConnectDevice ==
    /\ last.op = "input"
    /\ last' = Step("connect_device", last.arg, "ok",
                    <<connect_device(last.arg.path_to_info,
                                     last.arg.hide_kernel_prefix)>>,
                    0, "", NoGather)
    /\ UNCHANGED <<_server, starts, paths_to_info, memory, path_to_streaming_handles, clock,
                   tasks, inflight, nsets, nsubs, lastSet>>

\* The paths the device lists and the flag connect_device is called with.
InitSession ==
    /\ _server = NoServer
    /\ starts = [c \in Callers |-> "idle"]
    /\ paths_to_info \in Registries
    /\ memory = << >>
    /\ path_to_streaming_handles = << >>
    /\ clock = 0
    /\ tasks = [s \in Slots |-> Idle]
    /\ inflight = {}
    /\ nsets = 0
    /\ nsubs = 0
    /\ lastSet = [p \in StorePaths |-> [value |-> Unset, count |-> 0]]
    /\ \E path_to_info \in {nodes \in NodeLists : IsRegistry(nodes)},
          hide_kernel_prefix \in BOOLEAN :
         last = Step("input",
                     [path_to_info |-> path_to_info,
                      hide_kernel_prefix |-> hide_kernel_prefix],
                     "ok", << >>, 0, "", NoGather)

NextSession == ConnectDevice

SpecSession == InitSession /\ [][NextSession]_vars

\* The emulator after the set-up of the tests (get_functionality_with_state:
\* one set per registered path, no subscriber yet), then called with
\* set_with_expression while handles subscribe and deliveries succeed or
\* fail. nsets and nsubs count the calls made after the set-up.
SetUpValue == IntValue(8)

InitSetUp ==
    /\ _server = NoServer
    /\ starts = [c \in Callers |-> "idle"]
    /\ paths_to_info \in Registries
    /\ memory = [p \in Range(paths_to_info) |-> SetUpValue]
    /\ path_to_streaming_handles = << >>
    /\ clock = 0
    /\ tasks = [s \in Slots |-> Idle]
    /\ inflight = {}
    /\ nsets = 0
    /\ nsubs = 0
    /\ lastSet = [p \in StorePaths |->
                    IF p \in Range(paths_to_info)
                    THEN [value |-> SetUpValue, count |-> 1]
                    ELSE [value |-> Unset, count |-> 0]]
    /\ last = Step("init", << >>, "ok", << >>, 0, "", NoGather)

NextSetUp ==
    \/ \E value \in ExpressionValues : SetWithExpression(pA, value)
    \/ \E path \in SubscribePaths, h \in Handles : Subscribe(path, h)
    \/ \E d \in inflight : Deliver(d)
    \/ \E d \in inflight : DeliverFail(d)
    \/ \E s \in Slots : Resume(s)

SpecSetUp == InitSetUp /\ [][NextSetUp]_vars

\* ------------------------------------------------------------------------
\* SessionMockTemplate: the capnp server methods over a functionality
\* ------------------------------------------------------------------------

SERVER_ERROR == "SERVER_ERROR"

\* An exception (a subclass of Exception) and f"{error}", its text.
Exception(kind, text) == [kind |-> kind, text |-> text]
format(error) == error.text

\* What a method of the functionality does when the server awaits it: it
\* raises, or it returns its responses (get and set one response,
\* subscribe_logic none).
FunctionalityRaise(error) ==
    [raised |-> TRUE, error |-> error, responses |-> << >>]
FunctionalityReturn(responses) ==
    [raised |-> FALSE, error |-> Exception("", ""), responses |-> responses]

\* What a server method does: it returns, or an exception leaves it.
ServerReturn(results) == [raised |-> FALSE, error |-> "", results |-> results]
ServerRaise(error) == [raised |-> TRUE, error |-> error, results |-> << >>]

\* build_capnp_error
build_capnp_error(error) ==
    [tag |-> "err",
     err |-> [code |-> 2, message |-> format(error),
              category |-> SERVER_ERROR,
              source |-> "labone.mock.session_mock_template"]]

\* The list comprehension at the end of getValue and setValue: one "ok"
\* entry per response, with _value_from_python_types_dict(response.value)
\* as its value; an exception of the encoder leaves the method.
ok_results(responses) ==
    LET encoded == [i \in DOMAIN responses |->
                       _value_from_python_types_dict(responses[i].value)]
        raising == {i \in DOMAIN responses : encoded[i].raised}
    IN  IF raising # {}
        THEN ServerRaise(encoded[CHOOSE i \in raising :
                                    \A j \in raising : i <= j].error)
        ELSE ServerReturn([i \in DOMAIN responses |->
                             [tag |-> "ok",
                              value |-> encoded[i].wire,
                              path |-> responses[i].path,
                              timestamp |-> responses[i].timestamp]])

\* getValue without its try statement.
getValue_no_try(called) ==
    IF called.raised THEN ServerRaise(format(called.error))
    ELSE ok_results(called.responses)

\* getValue: called is what the awaited get (lookupMode 0) or
\* get_with_expression has done.
getValue(called) ==
    IF called.raised THEN ServerReturn(<<build_capnp_error(called.error)>>)
    ELSE ok_results(called.responses)

\* setValue: the value is decoded before the try statement; called is
\* what the awaited set (lookupMode 0) or set_with_expression has done.
setValue(value, called) ==
    LET decoded == _capnp_value_to_python_value(value) IN
    IF decoded.raised THEN ServerRaise(decoded.error)
    ELSE IF called.raised
    THEN ServerReturn(<<build_capnp_error(called.error)>>)
    ELSE ok_results(called.responses)

\* subscribe: called is what the awaited subscribe_logic has done.
subscribe(called) ==
    IF called.raised THEN ServerReturn(build_capnp_error(called.error))
    ELSE ServerReturn([tag |-> "ok"])

\* The exceptions a functionality raises, the values of its responses
\* (grouped by the kind of their content) and the lists it returns.
Exceptions ==
    {Exception("RuntimeError", "delivery failed"),
     Exception("NotImplementedError",
               "TriggerSample and CntSample not yet implemented"),
     Exception("KeyError", "")}
ResponseValues ==
    << {IntValue(7), TriggerSampleValue, NoneValue}, {NotFoundValue} >>
ResponseLists(values) ==
    {<<AnnotatedValue(pAX, v, 1)>> : v \in values}
    \cup {<<AnnotatedValue(pAX, v, 1), AnnotatedValue(pAXY, w, 2)>> :
            v \in values, w \in values}
Outcomes(method, lookupMode, values) ==
    {FunctionalityRaise(error) : error \in Exceptions}
    \cup {FunctionalityReturn(responses) :
            responses \in
                IF method = "subscribe" THEN {<< >>}
                ELSE IF lookupMode = 0
                THEN {r \in ResponseLists(values) : Len(r) = 1}
                ELSE ResponseLists(values) \cup {<< >>}}

\* The values a client sends with setValue: an int64 and a member of the
\* union that _capnp_value_to_python_value does not know.
RequestValues == {[tag |-> "int64", v |-> 7], [tag |-> "largeVectorData", v |-> 0]}

GetValue ==
    /\ last.op = "input"
    /\ last.arg.method = "getValue"
    /\ LET r == getValue(last.arg.called) IN
       last' = Step("getValue", last.arg,
                    IF r.raised THEN "raised" ELSE "ok", r.results, 0,
                    r.error, NoGather)
    /\ UNCHANGED <<_server, starts, paths_to_info, memory, path_to_streaming_handles, clock,
                   tasks, inflight, nsets, nsubs, lastSet>>

SetValue ==
    /\ last.op = "input"
    /\ last.arg.method = "setValue"
    /\ LET r == setValue(last.arg.value, last.arg.called) IN
       last' = Step("setValue", last.arg,
                    IF r.raised THEN "raised" ELSE "ok", r.results, 0,
                    r.error, NoGather)
    /\ UNCHANGED <<_server, starts, paths_to_info, memory, path_to_streaming_handles, clock,
                   tasks, inflight, nsets, nsubs, lastSet>>

SubscribeCall ==
    /\ last.op = "input"
    /\ last.arg.method = "subscribe"
    /\ LET r == subscribe(last.arg.called) IN
       last' = Step("subscribe", last.arg,
                    IF r.raised THEN "raised" ELSE "ok", r.results, 0,
                    r.error, NoGather)
    /\ UNCHANGED <<_server, starts, paths_to_info, memory, path_to_streaming_handles, clock,
                   tasks, inflight, nsets, nsubs, lastSet>>

\* A request to the server and what the functionality does with it.
InitServer ==
    /\ _server = NoServer
    /\ starts = [c \in Callers |-> "idle"]
    /\ paths_to_info \in Registries
    /\ memory = << >>
    /\ path_to_streaming_handles = << >>
    /\ clock = 0
    /\ tasks = [s \in Slots |-> Idle]
    /\ inflight = {}
    /\ nsets = 0
    /\ nsubs = 0
    /\ lastSet = [p \in StorePaths |-> [value |-> Unset, count |-> 0]]
    /\ \E method \in {"getValue", "setValue", "subscribe"},
          lookupMode \in {0, 1}, value \in RequestValues,
          i \in DOMAIN ResponseValues :
         \E called \in Outcomes(method, lookupMode, ResponseValues[i]) :
            /\ method = "getValue" => value = [tag |-> "int64", v |-> 7]
            /\ method = "subscribe"
                 => value = [tag |-> "int64", v |-> 7] /\ lookupMode = 0
            /\ last = Step("input",
                           [method |-> method, lookupMode |-> lookupMode,
                            value |-> value, called |-> called],
                           "ok", << >>, 0, "", NoGather)

NextServer == GetValue \/ SetValue \/ SubscribeCall

SpecServer == InitServer /\ [][NextServer]_vars

\* ------------------------------------------------------------------------
\* MockServer.start
\* ------------------------------------------------------------------------

\* The test that never finds a server.
already_started_never(server) == FALSE

\* if self._server is not None
already_started(server) == server # NoServer

\* The awaits of start, in order: ensure_capnp_event_loop() and the two
\* capnp.AsyncIoStream.create_connection calls. At each of them the event
\* loop may run other coroutines.
StartAwaits == <<"ensure_capnp_event_loop", "reader", "writer">>

\* start is called: it raises when a server exists, else it goes on to its
\* first await.
StartCall(c) ==
    /\ starts[c] = "idle"
    /\ IF already_started(_server)
       THEN /\ starts' = [starts EXCEPT ![c] = "raised"]
            /\ last' = Step("start", c, "raised", << >>, 0,
                            "RuntimeError: Server already started.", NoGather)
       ELSE /\ starts' = [starts EXCEPT ![c] = StartAwaits[1]]
            /\ last' = Step("start", c, "suspended", << >>, 0, "", NoGather)
    /\ UNCHANGED <<_server, paths_to_info, memory, path_to_streaming_handles,
                   clock, tasks, inflight, nsets, nsubs, lastSet>>

\* An await of start other than the last is over: the call goes on to the
\* next one.
StartResume(c) ==
    /\ \E i \in 1..(Len(StartAwaits) - 1) :
          /\ starts[c] = StartAwaits[i]
          /\ starts' = [starts EXCEPT ![c] = StartAwaits[i + 1]]
    /\ last' = Step("start", c, "suspended", << >>, 0, "", NoGather)
    /\ UNCHANGED <<_server, paths_to_info, memory, path_to_streaming_handles,
                   clock, tasks, inflight, nsets, nsubs, lastSet>>

\* The last await of start is over: self._server = capnp.TwoPartyServer(...)
\* and the reader is returned.
StartReturn(c) ==
    /\ starts[c] = StartAwaits[Len(StartAwaits)]
    /\ _server' = c
    /\ starts' = [starts EXCEPT ![c] = "returned"]
    /\ last' = Step("start", c, "ok", <<"reader">>, 0, "", NoGather)
    /\ UNCHANGED <<paths_to_info, memory, path_to_streaming_handles,
                   clock, tasks, inflight, nsets, nsubs, lastSet>>

NextMockServer ==
    \E c \in Callers : StartCall(c) \/ StartResume(c) \/ StartReturn(c)

SpecMockServer == Init /\ [][NextMockServer]_vars

\* ------------------------------------------------------------------------
\* Instrument._version_string_to_tuple
\* ------------------------------------------------------------------------

VERSION_LENGTH == 3

\* The longest version string tried, and the characters it is made of.
MaxVersionLen == 7
VersionChars == {"1", "2", "x", "."}
VersionStrings == UNION {[1..n -> VersionChars] : n \in 0..MaxVersionLen}

\* str.split(sep): the parts between the separators (one part more than
\* there are separators; parts may be empty).
RECURSIVE str_split_acc(_, _, _, _)
str_split_acc(s, sep, cur, acc) ==
    IF s = << >> THEN Append(acc, cur)
    ELSE IF Head(s) = sep
    THEN str_split_acc(Tail(s), sep, << >>, Append(acc, cur))
    ELSE str_split_acc(Tail(s), sep, Append(cur, Head(s)), acc)

str_split(s, sep) == str_split_acc(s, sep, << >>, << >>)

DigitValue ==
    [c \in {"0", "1", "2", "3", "4", "5", "6", "7", "8", "9"} |->
        CASE c = "0" -> 0 [] c = "1" -> 1 [] c = "2" -> 2 [] c = "3" -> 3
          [] c = "4" -> 4 [] c = "5" -> 5 [] c = "6" -> 6 [] c = "7" -> 7
          [] c = "8" -> 8 [] c = "9" -> 9]

RECURSIVE DecimalValue(_, _)
DecimalValue(digits, n) ==
    IF digits = << >> THEN n
    ELSE DecimalValue(Tail(digits), 10 * n + DigitValue[Head(digits)])

\* int(value) of a string of the characters above: the number written in
\* decimal digits, or ValueError.
int(value) ==
    IF value = << >> \/ \E i \in DOMAIN value : value[i] \notin DOMAIN DigitValue
    THEN [raised |-> TRUE, v |-> 0]
    ELSE [raised |-> FALSE, v |-> DecimalValue(value, 0)]

VersionReturn(result) == [raised |-> FALSE, error |-> "", result |-> result]
VersionRaise(error) == [raised |-> TRUE, error |-> error, result |-> << >>]

\* The loop of _version_string_to_tuple from part i on (parts counted from
\* 1): a ValueError of int(value) is suppressed, result[i] = ... beyond the
\* end of result raises IndexError; after the loop the test of len(result).
RECURSIVE version_loop(_, _, _)
version_loop(result, parts, i) ==
    IF i > Len(parts)
    THEN IF Len(result) # VERSION_LENGTH
         THEN VersionRaise("ValueError: Version string must contain three parts separated by dots")
         ELSE VersionReturn(<<result[1], result[2], result[3]>>)
    ELSE LET n == int(parts[i]) IN
         IF n.raised THEN version_loop(result, parts, i + 1)
         ELSE IF i > Len(result)
         THEN VersionRaise("IndexError: list assignment index out of range")
         ELSE version_loop([result EXCEPT ![i] = n.v], parts, i + 1)

\* _version_string_to_tuple
_version_string_to_tuple(version) ==
    version_loop(<<0, 0, 0>>, str_split(version, "."), 1)

VersionStringToTuple ==
    /\ last.op = "input"
    /\ LET r == _version_string_to_tuple(last.arg) IN
       last' = Step("_version_string_to_tuple", last.arg,
                    IF r.raised THEN "raised" ELSE "ok", r.result, 0,
                    r.error, NoGather)
    /\ UNCHANGED <<_server, starts, paths_to_info, memory,
                   path_to_streaming_handles, clock, tasks, inflight, nsets,
                   nsubs, lastSet>>

InitVersion ==
    /\ _server = NoServer
    /\ starts = [c \in Callers |-> "idle"]
    /\ paths_to_info \in Registries
    /\ memory = << >>
    /\ path_to_streaming_handles = << >>
    /\ clock = 0
    /\ tasks = [s \in Slots |-> Idle]
    /\ inflight = {}
    /\ nsets = 0
    /\ nsubs = 0
    /\ lastSet = [p \in StorePaths |-> [value |-> Unset, count |-> 0]]
    /\ \E version \in VersionStrings :
         last = Step("input", version, "ok", << >>, 0, "", NoGather)

NextVersion == VersionStringToTuple

SpecVersion == InitVersion /\ [][NextVersion]_vars

\* The emulator read with get, while time passes.
Next ==
    \/ \E path \in CallPaths : Get(path)
    \/ Change
    \/ Tick

Spec == Init /\ [][Next]_vars

\* The emulator read with path expressions: get_with_expression,
\* list_nodes and list_nodes_info. All timestamps are the same reading of
\* the clock.
NextExpressions ==
    \/ \E expression \in GetExpressions : GetWithExpression(expression)
    \/ \E expression \in ListExpressions : ListNodes(expression)
    \/ \E expression \in ListExpressions : ListNodesInfo(expression)
    \/ Change

SpecExpressions == Init /\ [][NextExpressions]_vars

\* The emulator with subscribers on the path that is set, on a path above
\* it, on a path below it and on a wildcard expression that matches it.
FrameSetPaths == {pAX}
FrameValues == {IntValue(7), TriggerSampleValue}
FrameSubscribePaths == {pA, pAX, pAXY, eAStar}

NextFrame ==
    \/ \E path \in FrameSetPaths, value \in FrameValues : Set(path, value)
    \/ \E path \in CallPaths : Get(path)
    \/ \E expression \in GetExpressions : GetWithExpression(expression)
    \/ \E expression \in ListExpressions : ListNodes(expression)
    \/ \E expression \in ListExpressions : ListNodesInfo(expression)
    \/ \E path \in FrameSubscribePaths, h \in Handles : Subscribe(path, h)
    \/ \E d \in inflight : Deliver(d)
    \/ \E d \in inflight : DeliverFail(d)
    \/ \E s \in Slots : Resume(s)

SpecFrame == Init /\ [][NextFrame]_vars

\* ------------------------------------------------------------------------
\* Properties
\* ------------------------------------------------------------------------

Registered(path) == path \in Range(paths_to_info)

\* match of the path resolver, as the specification defines it: the first
\* segments of the candidate satisfy the segments of the expression (a
\* wildcard segment any segment, a literal segment itself), so that an
\* expression selects itself and its descendants.
match(expression, candidate) ==
    LET e == Segments(expression)
        c == Segments(candidate)
    IN  /\ Len(c) >= Len(e)
        /\ \A i \in DOMAIN e : e[i] = <<"*">> \/ e[i] = c[i]

MatchTable ==
    [expression \in CallExpressions |->
        {p \in StorePaths : match(expression, p)}]

\* The registered paths an expression selects by the specification.
Selected(expression) == MatchTable[expression] \cap Range(paths_to_info)

HasWildcard(expression) == "*" \in Range(expression)

\* The value get(path) returns in this state.
Stored(mem, path) == get(mem, path, 0).value

\* C1: get of a path that is not a key of the registry fails with an
\* invalid-path error; it never returns a value for such a path.
C1_GetOutsideRegistryRaises ==
    (last.op = "get" /\ ~Registered(last.arg)) => last.status = "raised"

\* C2: set of a value whose path is not a key of the registry fails with an
\* invalid-path error and does not store the value.
C2_SetOutsideRegistryRaises ==
    (last.op = "set" /\ ~Registered(last.arg.path))
        => (last.status = "raised" /\ last.arg.path \notin DOMAIN memory)

\* C3: a get of a registered path that set has been called on returns the
\* value of the most recent of these set calls.
C3_GetReturnsLastSet ==
    (last.op = "get" /\ Registered(last.arg) /\ lastSet[last.arg].count > 0)
        => (last.status = "ok"
            /\ last.ret[1].value = lastSet[last.arg].value)

\* C3 happens: a get after a set has overwritten the value of an earlier set.
C3_Witness ==
    /\ last.op = "get"
    /\ Registered(last.arg)
    /\ lastSet[last.arg].count = 2
    /\ last.ret[1].value = IntValue(8)
    /\ last.ret[1].value = lastSet[last.arg].value

\* C4: a step of set(q, y) leaves get(p).value as it was for every path p
\* other than q.
C4_SetLeavesOtherPaths ==
    [][last'.op = "set"
           => \A p \in StorePaths \ {last'.arg.path} :
                  Stored(memory', p) = Stored(memory, p)]_vars

\* C4 happens: a set has returned while another path holds another value.
C4_Witness ==
    /\ last.op = "set"
    /\ last.status = "ok"
    /\ \E p \in DOMAIN memory :
         p # last.arg.path /\ memory[p] # last.arg.value

\* C5: get of a registered path no set has been called on succeeds and
\* returns the placeholder value.
C5_GetUnwrittenReturnsPlaceholder ==
    (last.op = "get" /\ Registered(last.arg) /\ lastSet[last.arg].count = 0)
        => (last.status = "ok" /\ last.ret[1].value = NotFoundValue)

\* C5 happens: such a get has returned, while other paths hold values.
C5_Witness ==
    /\ last.op = "get"
    /\ Registered(last.arg)
    /\ lastSet[last.arg].count = 0
    /\ last.ret[1].value = NotFoundValue
    /\ memory # << >>

\* C6: get_with_expression(e), e without wildcard, returns one value for
\* exactly the registered paths that equal e or descend from e.
C6_GetWithExpressionSelfAndDescendants ==
    (last.op = "get_with_expression" /\ ~HasWildcard(last.arg))
        => /\ last.status = "ok"
           /\ {last.ret[i].path : i \in DOMAIN last.ret} = Selected(last.arg)
           /\ Len(last.ret) = Cardinality(Selected(last.arg))
           /\ \A i \in DOMAIN last.ret :
                  last.ret[i].value = Stored(memory, last.ret[i].path)

\* C7: the expression "*" selects every registered path:
\* get_with_expression("*") returns one value per registered path and a
\* set_with_expression("*", v) that runs to its end at once leaves every
\* registered path at v.
C7_StarSelectsEveryPath ==
    /\ (last.op = "get_with_expression" /\ last.arg = eStar)
          => /\ {last.ret[i].path : i \in DOMAIN last.ret}
                    = Range(paths_to_info)
             /\ Len(last.ret) = Len(paths_to_info)
    /\ (last.op = "set_with_expression" /\ last.arg.path = eStar
        /\ last.status = "ok" /\ last.gather = NoGather)
          => \A p \in Range(paths_to_info) :
                 Stored(memory, p) = last.arg.value

\* C8: a set_with_expression(e, v), e without wildcard, that runs to its end
\* in one step sets the stored value of exactly the registered paths e
\* selects (e itself and its descendants) to v and leaves the stored value
\* of every other path as it was.
C8_SetWithExpressionSetsSelected ==
    [][(last'.op = "set_with_expression" /\ last'.status = "ok"
        /\ ~HasWildcard(last'.arg.path) /\ nsets' = nsets + 1)
           => \A p \in StorePaths :
                  Stored(memory', p) =
                      IF p \in Selected(last'.arg.path)
                      THEN last'.arg.value
                      ELSE Stored(memory, p)]_vars

\* C9: a set_with_expression whose expression selects no registered path
\* returns an empty list without raising, changes no stored value and
\* starts no delivery to a subscriber.
C9_SetWithExpressionNoMatch ==
    [][(last'.op = "set_with_expression"
        /\ Selected(last'.arg.path) = {})
           => /\ nsets' = nsets + 1
              /\ last'.status = "ok"
              /\ last'.ret = << >>
              /\ memory' = memory
              /\ inflight' = inflight
              /\ tasks' = tasks]_vars

\* C9 happens: such a call has returned while values are stored and handles
\* are subscribed.
C9_Witness ==
    /\ last.op = "set_with_expression"
    /\ Selected(last.arg.path) = {}
    /\ last.status = "ok"
    /\ last.ret = << >>
    /\ memory # << >>
    /\ path_to_streaming_handles # << >>

\* The update message of a set call, given its acknowledgement.
UpdateOf(ack) ==
    [value |-> [tag |-> "int64", v |-> ack.value.v],
     path |-> ack.path, timestamp |-> ack.timestamp]

\* The sendValues calls of gather g to handle h that have completed.
Completed(g, h) == {i \in g.done : g.sent[i].handle = h}

\* C10, as stated: when set(p, v) returns normally, every handle subscribed
\* to p when the set was called has completed the delivery of exactly one
\* update for this call, which carries p, v and the timestamp of the
\* acknowledgement.
C10_ExactlyOneUpdatePerHandle ==
    (last.op = "set" /\ last.status = "ok")
        => \A h \in Range(last.gather.subscribed) :
               /\ Cardinality(Completed(last.gather, h)) = 1
               /\ \A i \in Completed(last.gather, h) :
                      last.gather.sent[i].message = UpdateOf(last.ret[1])

\* C10, amended: when set(p, v) returns normally, one sendValues call per
\* registration of a handle on p at the time of the call has completed (a
\* handle registered k times has taken k updates), none is still under way,
\* and each update carries p, v and the timestamp of the acknowledgement.
C10_OneUpdatePerRegistration ==
    (last.op = "set" /\ last.status = "ok")
        => LET g == last.gather IN
           /\ last.ret[1].path = last.arg.path
           /\ last.ret[1].value = last.arg.value
           /\ Len(g.sent) = Len(g.subscribed)
           /\ g.done = DOMAIN g.sent
           /\ g.pending = {}
           /\ ~g.failed
           /\ \A d \in inflight : d.call # last.call
           /\ \A i \in DOMAIN g.sent :
                  /\ g.sent[i].handle = g.subscribed[i]
                  /\ g.sent[i].message = UpdateOf(last.ret[1])

\* C10 happens: a set has returned after two handles have taken its update,
\* and the clock has moved on since the set was called.
C10_Witness ==
    /\ last.op = "set"
    /\ last.status = "ok"
    /\ Len(last.gather.sent) = 2
    /\ last.gather.sent[1].handle # last.gather.sent[2].handle
    /\ last.gather.done = {1, 2}
    /\ last.ret[1].timestamp < clock

\* C11: when set(p, v) raises because a delivery of it has failed, the
\* store is not rolled back: raising changes no stored value, and get(p)
\* returns v (the value of a later set call on p, if one has run while
\* this one waited).
C11_FailedDeliveryKeepsValue ==
    [][\A s \in Slots :
           (tasks[s].op = "set" /\ last'.op = "set"
            /\ last'.call = tasks[s].call /\ last'.status = "raised"
            /\ last'.error = "delivery")
               => /\ memory' = memory
                  /\ Stored(memory', last'.arg.path)
                         = lastSet[last'.arg.path].value
                  /\ SetCount(lastSet, last'.arg.path) = tasks[s].nth
                         => Stored(memory', last'.arg.path)
                                = last'.arg.value]_vars

\* C11 happens: a set that has overwritten the value of an earlier set has
\* raised after a failed delivery.
C11_Witness ==
    /\ last.op = "set"
    /\ last.status = "raised"
    /\ last.error = "delivery"
    /\ last.gather.failed
    /\ lastSet[last.arg.path].count = 2
    /\ Stored(memory, last.arg.path) = last.arg.value

\* C12: when set raises because a delivery of it has failed, every
\* delivery of that call has ended: none is awaited by the gather and none
\* is still under way.
C12_RaisesAfterAllDeliveries ==
    (last.op = "set" /\ last.status = "raised" /\ last.error = "delivery")
        => /\ last.gather.pending = {}
           /\ \A d \in inflight : d.call # last.call

IsPrefix(a, b) == Len(a) <= Len(b) /\ \A i \in DOMAIN a : a[i] = b[i]

\* The handles registered on a path.
RegisteredHandles(path) == DictGet(path_to_streaming_handles, path, << >>)

SetInFlight(s) ==
    /\ tasks[s].op = "set"
    /\ tasks[s].gather.pending # {}
    /\ ~tasks[s].gather.failed

\* C14: set calls are serialized: while a set call is between its store
\* and the completion of its deliveries, no other set call stores a value.
C14_SetCallsSerialized ==
    [][((\E s \in Slots : SetInFlight(s)) /\ last'.op = "set")
           => \A p \in DOMAIN lastSet :
                  lastSet'[p].count = lastSet[p].count]_vars

\* C15, as stated: a get response carries the reading of the clock at the
\* get, and of two get / set responses returned one after the other the
\* second does not carry the smaller timestamp.
C15_SuccessiveResponsesNeverDecrease ==
    [][/\ last'.op = "get" => last'.ret[1].timestamp = clock'
       /\ (/\ last.op \in {"get", "set"} /\ last.status = "ok"
           /\ last'.op \in {"get", "set"} /\ last'.status = "ok")
              => last'.ret[1].timestamp >= last.ret[1].timestamp]_vars

\* C15, amended: a get response carries the reading of the clock at the
\* get; a set response carries the reading of the clock at the moment the
\* set stored its value, also when the set returns later, after its
\* deliveries; the clock never goes back, so the timestamps never decrease
\* in the order in which they are taken, and no response carries a
\* timestamp later than the clock at its return.
C15_TimestampsTakenInOrder ==
    [][/\ clock' >= clock
       /\ last'.op = "get" => last'.ret[1].timestamp = clock'
       /\ (last'.op = "set" /\ last'.status = "suspended")
              => \E s \in Slots :
                     /\ tasks'[s].call = last'.call
                     /\ tasks'[s].response.timestamp = clock'
       /\ (last'.op = "set" /\ last'.status = "ok")
              => /\ last'.ret[1].timestamp <= clock'
                 /\ IF nsets' = nsets + 1
                    THEN last'.ret[1].timestamp = clock'
                    ELSE \E s \in Slots :
                             /\ tasks[s].call = last'.call
                             /\ last'.ret[1].timestamp
                                    = tasks[s].response.timestamp]_vars

\* C15 happens: a get of a path returns the reading of the clock while a
\* set of the same path, stamped with an earlier reading, waits.
C15_Witness ==
    /\ last.op = "get"
    /\ last.ret[1].timestamp = clock
    /\ \E s \in Slots :
           /\ tasks[s].op = "set"
           /\ tasks[s].response.path = last.arg
           /\ tasks[s].response.timestamp < last.ret[1].timestamp

\* ------------------------------------------------------------------------
\* Value codec
\* ------------------------------------------------------------------------

\* C16: decoding raises exactly for a value whose tag is outside the Value
\* union, with the unknown-type error, and for nothing else.
C16_OnlyUnknownTagRaises ==
    last.op = "decode" =>
      /\ last.status = "raised" <=> last.arg.tag \notin WireTags
      /\ last.status = "raised" =>
           last.error = "ValueError: Unknown capnp type"

\* C17: a vector with a device-specific framing that the parser does not
\* know is decoded without an exception, whatever the length of its data
\* and its declared header length: the result is the array of the
\* elements after the header, of the declared element type, and no extra
\* header.
C17_UnknownFramingNeverRaises ==
    (/\ last.op = "decode"
     /\ last.arg.tag = "vectorData"
     /\ last.arg.v.valueType = UnknownShfType
     /\ last.arg.v.vectorElementType \in DOMAIN VectorElementType) =>
      LET vector_data == last.arg.v
          member == VectorElementType[vector_data.vectorElementType]
          size == ItemSize[member]
          rest == Drop(vector_data.data, get_header_length(vector_data))
      IN  /\ last.status = "ok"
          /\ last.ret[1].type = "ndarray"
          /\ last.ret[1].v.dtype = member
          /\ tobytes(last.ret[1].v.elems, size) = rest
          /\ last.ret[2] = NoHeader

\* The variants of Value that the round trip is stated for.
ValueVariants ==
    {"int", "float", "complex", "str", "bytes", "ndarray", "SHFDemodSample",
     "TriggerSample", "CntSample", "NoneType"}

\* C18: for every variant of Value, encoding a value and decoding the
\* result gives the value back: decode(encode(v)) = v.
C18_DecodeInvertsEncode ==
    (last.op = "round_trip" /\ last.arg.type \in ValueVariants) =>
      /\ last.status = "ok"
      /\ last.ret[1].type = last.arg.type
      /\ last.ret[1].v = last.arg.v
      /\ last.ret[2] = NoHeader

\* ------------------------------------------------------------------------
\* Path resolver
\* ------------------------------------------------------------------------

\* A node is the path or lies below it: the segments of the path are the
\* first segments of the node.
EqualOrBelow(node, path) == IsPrefix(Segments(path), Segments(node))

\* C19: for a path without wildcard, resolve_wildcards_labone returns the
\* nodes that are the path or extend it by whole segments ("/ab" does not
\* extend "/a"), in the order of the list of nodes.
C19_LiteralSelectsSelfAndDescendants ==
    (last.op = "resolve" /\ ~HasWildcard(last.arg.path)) =>
      LET Below(node) == EqualOrBelow(node, last.arg.path)
      IN  last.ret[1] = SelectSeq(last.arg.nodes, Below)

\* C19 happens: a path is resolved against nodes in unsorted order that
\* hold the path, a descendant and a node that only shares its first
\* characters, and the first two are returned.
C19_Witness ==
    /\ last.op = "resolve"
    /\ last.arg.path = pA
    /\ last.arg.nodes = <<pAB, p_ab, pA>>
    /\ last.ret[1] = <<pAB, pA>>

\* C20: every wildcard segment of a path, be it inside the path, at its
\* end or next to another wildcard, stands for exactly one segment, and
\* nodes below a match are selected too: "/*/*/c" selects "/a/b/c" and not
\* "/a/c", and "/a/*" does not select "/a".
C20_WildcardIsOneSegment ==
    (last.op = "resolve" /\ HasWildcard(last.arg.path)) =>
      LET Matches(node) == match(last.arg.path, node)
      IN  last.ret[1] = SelectSeq(last.arg.nodes, Matches)

\* C21: list_nodes_info returns the entries of the registry whose path
\* matches the expression: all of them for the empty expression and for
\* "*"; for a path, the path itself and the paths below it; a wildcard
\* segment stands for one segment, so that a path followed by a wildcard
\* does not select the path itself.
C21_ListNodesInfoReturnsMatches ==
    last.op = "list_nodes_info" =>
      LET Matches(k) ==
              \/ last.arg.path \in {eEmpty, eStar}
              \/ match(last.arg.path, k)
      IN  last.ret = SelectSeq(last.arg.nodes, Matches)

\* C22: for every registry and every path expression, list_nodes_info and
\* list_nodes called with the expression give the same set of paths.
C22_ListNodesInfoKeysAreListNodes ==
    [][(/\ {last.op, last'.op} = {"list_nodes_info", "list_nodes"}
        /\ last'.arg = last.arg)
           => Range(last'.ret) = Range(last.ret)]_vars

\* C22 happens: both functions were called with a path on a registry of
\* which they select a part.
C22_Witness ==
    /\ last.op = "list_nodes"
    /\ last.arg.path = pA
    /\ last.arg.nodes = <<pAB, pB, pA>>
    /\ last.ret = <<pAB>>
    /\ Range(list_nodes_info(last.arg.nodes, last.arg.path)) = {pAB}

\* The step was a call of one of the two encoders.
Encoded == last.op \in {"encode", "encode_dict"}

\* C23: both encoders map a scalar by its type: a bool to int64 with the
\* value 0 or 1, an integer to int64, a float to double and a complex
\* number to the record of its real and imaginary part.
C23_ScalarsEncodeByType ==
    (Encoded /\ last.arg.type \in {"bool", "int", "float", "complex"}) =>
      /\ last.status = "ok"
      /\ LET wire == last.ret[1]
             v == last.arg.v
         IN  CASE last.arg.type = "bool" ->
                      /\ wire.tag = "int64"
                      /\ wire.v = IF v THEN 1 ELSE 0
               [] last.arg.type = "int" -> wire.tag = "int64" /\ wire.v = v
               [] last.arg.type = "float" -> wire.tag = "double" /\ wire.v = v
               [] last.arg.type = "complex" ->
                      /\ wire.tag = "complex"
                      /\ wire.v.real = v.real
                      /\ wire.v.imag = v.imag

\* C23 happens: the bool True was encoded as the int64 1.
C23_Witness ==
    /\ last.op = "encode"
    /\ last.arg.type = "bool"
    /\ last.arg.v
    /\ last.ret[1].tag = "int64"
    /\ last.ret[1].v = 1

\* C24: both encoders turn an array without extra header into a vector
\* record with the framing VECTOR_DATA, the element type of the array and
\* the bytes of the array as data, and a bytes object into a vector record
\* with the framing BYTE_ARRAY and the element type UINT8.
C24_VectorsEncodeWithGenericFraming ==
    (Encoded /\ last.arg.type \in {"ndarray", "bytes"}) =>
      /\ last.status = "ok"
      /\ last.ret[1].tag = "vectorData"
      /\ DOMAIN last.ret[1].v
           = {"valueType", "extraHeaderInfo", "vectorElementType", "data"}
      /\ LET vector_data == last.ret[1].v
             v == last.arg.v
         IN  IF last.arg.type = "bytes"
             THEN /\ vector_data.valueType = BYTE_ARRAY
                  /\ VectorElementType[vector_data.vectorElementType] = "UINT8"
                  /\ vector_data.data = v
             ELSE /\ vector_data.valueType = VECTOR_DATA
                  /\ VectorElementType[vector_data.vectorElementType] = v.dtype
                  /\ vector_data.data = tobytes(v.elems, ItemSize[v.dtype])

\* The value decoded is a scalar, a sample, none, or a vector with one of
\* the generic framings VECTOR_DATA and BYTE_ARRAY.
GenericWire(capnp_value) ==
    \/ capnp_value.tag \in WireTags \ {"vectorData"}
    \/ /\ capnp_value.tag = "vectorData"
       /\ capnp_value.v.valueType \in {VECTOR_DATA, BYTE_ARRAY}

\* C25: decoding returns no extra header for a scalar, a sample, none and
\* a vector with generic framing; only a vector with device-specific
\* framing is decoded with an extra header.
C25_ExtraHeaderOnlyForDeviceVectors ==
    (last.op = "decode" /\ last.status = "ok") =>
      /\ GenericWire(last.arg) => last.ret[2] = NoHeader
      /\ last.ret[2] # NoHeader =>
           /\ last.arg.tag = "vectorData"
           /\ last.arg.v.valueType \notin {VECTOR_DATA, BYTE_ARRAY}

\* C25 happens: a vector of text with generic framing was decoded, with no
\* extra header.
C25_Witness ==
    /\ last.op = "decode"
    /\ last.status = "ok"
    /\ last.arg.tag = "vectorData"
    /\ last.arg.v.valueType = BYTE_ARRAY
    /\ last.arg.v.data = <<72, 105>>
    /\ last.ret[1].type = "str"
    /\ last.ret[2] = NoHeader

\* A vector with device-specific framing is decoded with its header.
DeviceVectorDecoded ==
    /\ last.op = "decode"
    /\ last.status = "ok"
    /\ last.ret[2].present

\* C26: an encoder fails with the invalid-type error, which names the
\* type, for a value whose type is outside Value, and for no value whose
\* type is inside Value.
C26_InvalidTypeOnlyOutsideValue ==
    Encoded =>
      /\ last.arg.type \notin ValueVariants \cup {"bool"} =>
           /\ last.status = "raised"
           /\ last.error = InvalidType(last.arg)
      /\ last.arg.type \in ValueVariants =>
           ~(last.status = "raised" /\ last.error = InvalidType(last.arg))

\* ------------------------------------------------------------------------
\* redirect
\* ------------------------------------------------------------------------

\* The paths reached from a path by following aliases, the path included.
RECURSIVE ReachAcc(_, _, _)
ReachAcc(path, path_aliases, acc) ==
    IF path \in acc \/ path \notin DOMAIN path_aliases
    THEN acc \cup {path}
    ELSE ReachAcc(path_aliases[path], path_aliases, acc \cup {path})

Reach(path, path_aliases) == ReachAcc(path, path_aliases, {})

\* No path of the alias map leads back to itself.
Acyclic(path_aliases) ==
    \A k \in DOMAIN path_aliases :
        k \notin Reach(path_aliases[k], path_aliases)

\* C27: for an acyclic alias map redirect returns the path reached by
\* following the aliases from the path until a path is no key of the map;
\* a path that is no key is returned as it is.
C27_RedirectFollowsAliases ==
    (last.op = "redirect" /\ last.status = "ok"
       /\ Acyclic(last.arg.path_aliases)) =>
      /\ last.ret[1] \in Reach(last.arg.path, last.arg.path_aliases)
      /\ last.ret[1] \notin DOMAIN last.arg.path_aliases
      /\ last.arg.path \notin DOMAIN last.arg.path_aliases =>
           last.ret[1] = last.arg.path

\* C27 happens: redirect followed two aliases, one after the other.
C27_Witness ==
    /\ last.op = "redirect"
    /\ last.status = "ok"
    /\ last.arg.path = pA
    /\ last.arg.path_aliases = (pA :> pB) @@ (pB :> pAB)
    /\ last.ret[1] = pAB

\* C28: redirect returns for every alias map, a map with a self-redirect
\* or a cycle included, with the last path it reached before a path would
\* have come again.
C28_RedirectTerminates ==
    <>(/\ last.op = "redirect"
       /\ last.status = "ok"
       /\ last.ret[1] \in Reach(last.arg.path, last.arg.path_aliases)
       /\ last.ret[1] \in DOMAIN last.arg.path_aliases =>
            last.arg.path_aliases[last.ret[1]]
                \in Reach(last.arg.path, last.arg.path_aliases))

\* C28 happens: redirect returned from the cycle of two paths with the
\* second of them.
C28_Witness ==
    /\ last.op = "redirect"
    /\ last.status = "ok"
    /\ last.arg.path = pA
    /\ last.arg.path_aliases = (pA :> pB) @@ (pB :> pA)
    /\ last.ret[1] = pB

\* ------------------------------------------------------------------------
\* The root of the node tree
\* ------------------------------------------------------------------------

\* The first segments of the paths of a registry.
FirstSegmentSet(nodes) == {Segments(nodes[i])[1] : i \in DOMAIN nodes}

\* C29: when hiding the kernel prefix is asked for and all paths share
\* one first segment, the root node is placed at that segment; when the
\* paths have several first segments, or hiding is not asked for, the root
\* node has no path segments.
C29_RootCollapsesCommonPrefix ==
    last.op = "connect_device" =>
      LET firsts == FirstSegmentSet(last.arg.path_to_info)
          root == last.ret[1].path_segments
      IN  /\ (last.arg.hide_kernel_prefix /\ Cardinality(firsts) = 1)
                => (Len(root) = 1 /\ root[1] \in firsts)
          /\ (~last.arg.hide_kernel_prefix \/ Cardinality(firsts) > 1)
                => root = << >>

\* C29 happens: the paths of the device all start with the segment a, and
\* the root node is placed at a.
C29_Witness ==
    /\ last.op = "connect_device"
    /\ last.arg.hide_kernel_prefix
    /\ last.arg.path_to_info = <<pAB, pA, pAC>>
    /\ last.ret[1].path_segments = <<<<"a">>>>

\* C31: set(p, v) sends its update only to handles registered on exactly
\* the path p: every sendValues call a set starts carries the path p and
\* goes to a handle in the list of p, and a handle registered only on
\* other paths (above p, below p, a wildcard expression that matches p) is
\* sent nothing by that set.
C31_SetNotifiesOnlyExactPath ==
    [][(last'.op = "set" /\ last'.status \in {"suspended", "ok"}
        /\ nsets' = nsets + 1)
          => LET p == last'.arg.path
                 registered ==
                     Range(DictGet(path_to_streaming_handles, p, << >>))
             IN  \A d \in inflight' \ inflight :
                     /\ d.path = p
                     /\ d.message.path = p
                     /\ d.call = last'.call
                     /\ d.handle \in registered]_vars

\* C31 happens: a set on /a/x waits for its delivery to the one handle of
\* /a/x while the other handle is registered on /a/* only.
C31_Witness ==
    /\ last.op = "set"
    /\ last.status = "suspended"
    /\ last.arg.path = pAX
    /\ DictGet(path_to_streaming_handles, pAX, << >>) = <<"h1">>
    /\ DictGet(path_to_streaming_handles, eAStar, << >>) = <<"h2">>
    /\ {d.handle : d \in inflight} = {"h1"}

\* The paths a set_with_expression / get_with_expression call works on.
PathsOf(responses) == [i \in DOMAIN responses |-> responses[i].path]

\* The paths a set call has stored a value at in the step just taken.
StoredInStep == {p \in StorePaths : lastSet'[p].count > lastSet[p].count}

\* The number of paths a set_with_expression call had stored before the
\* step just taken: none when the step is its start, else those of the
\* waiting coroutine.
StoredBefore ==
    IF nsets' = nsets + 1 THEN 0
    ELSE Len(tasks[CHOOSE s \in Slots : tasks[s].call = last'.call].acc) + 1

\* C32: set_with_expression and get_with_expression work on the resolved
\* paths one at a time, in the order of the resolution: when a
\* set_with_expression stores its next paths, no delivery of the call is
\* still under way, the paths stored in a step are the next ones of the
\* resolution, and the list returned has one response per resolved path, in
\* that order.
C32_ExpressionCallsRunInOrder ==
    [][
        /\ (last'.op = "set_with_expression" /\ last'.status # "raised")
            => LET resolved == ResolvedPaths(paths_to_info, last'.arg.path)
                   upto == IF last'.status = "ok" THEN Len(resolved)
                           ELSE Len(tasks'[CHOOSE s \in Slots :
                                      tasks'[s].call = last'.call].acc) + 1
               IN  /\ StoredInStep =
                          {resolved[i] : i \in (StoredBefore + 1)..upto}
                   /\ (StoredInStep # {}
                          => \A d \in inflight : d.call # last'.call)
                   /\ (last'.status = "ok"
                          => PathsOf(last'.ret) = resolved)
        /\ (last'.op = "get_with_expression"
            => PathsOf(last'.ret)
                   = ResolvedPaths(paths_to_info, last'.arg))
    ]_vars

\* C32 happens: a set_with_expression has returned several responses after
\* it had waited for the delivery of a path that is not the last one it
\* stored.
C32_Witness ==
    /\ last.op = "set_with_expression"
    /\ last.status = "ok"
    /\ Len(last.ret) >= 2
    /\ last.gather.done # {}
    /\ last.gather.sent[1].message.path # last.ret[Len(last.ret)].path

\* The functionality has been awaited by the server method of the step
\* just taken (setValue decodes the value of the request first).
FunctionalityCalled ==
    /\ last.op \in {"getValue", "setValue", "subscribe"}
    /\ last.op = "setValue"
         => ~_capnp_value_to_python_value(last.arg.value).raised

ErrorResult(error) ==
    [tag |-> "err",
     err |-> [code |-> 2, message |-> error.text, category |-> "SERVER_ERROR",
              source |-> "labone.mock.session_mock_template"]]

\* C33: getValue, setValue and subscribe never let an exception of the
\* functionality's get, get_with_expression, set, set_with_expression or
\* subscribe_logic leave them: they return it as an error result (code 2,
\* category SERVER_ERROR, the text of the exception as message), and the
\* list getValue / setValue return then holds that one error and nothing
\* else.
C33_FunctionalityErrorsAreReturned ==
    (FunctionalityCalled /\ last.arg.called.raised)
        => /\ last.status = "ok"
           /\ last.ret = IF last.op = "subscribe"
                         THEN ErrorResult(last.arg.called.error)
                         ELSE <<ErrorResult(last.arg.called.error)>>

\* C33 happens: set_with_expression has raised and setValue has returned
\* the error.
C33_Witness ==
    /\ last.op = "setValue"
    /\ last.arg.lookupMode = 1
    /\ last.arg.called.raised
    /\ last.arg.called.error.text = "delivery failed"
    /\ Len(last.ret) = 1
    /\ last.ret[1].err.message = "delivery failed"

\* C34: when the functionality's get / set (direct lookup) or
\* get_with_expression / set_with_expression (wildcard lookup) succeeds
\* with values that can be encoded, getValue and setValue return one ok
\* result per AnnotatedValue returned, in the same order, each with the
\* encoded value, the path and the timestamp of that AnnotatedValue.
C34_SuccessGivesOkResults ==
    (/\ FunctionalityCalled
     /\ last.op \in {"getValue", "setValue"}
     /\ ~last.arg.called.raised
     /\ \A i \in DOMAIN last.arg.called.responses :
            ~_value_from_python_types_dict(
                 last.arg.called.responses[i]).raised)
        => /\ last.status = "ok"
           /\ last.ret =
                  [i \in DOMAIN last.arg.called.responses |->
                      LET response == last.arg.called.responses[i] IN
                      [tag |-> "ok",
                       value |-> _value_from_python_types_dict(response).wire,
                       path |-> response.path,
                       timestamp |-> response.timestamp]]

\* The place of a path in a list of paths (0 when it is not in the list).
IndexOf(paths, path) ==
    IF \E i \in DOMAIN paths : paths[i] = path
    THEN CHOOSE i \in DOMAIN paths : paths[i] = path
    ELSE 0

\* C35: set_with_expression is not atomic. When the set of the k-th
\* resolved path raises (a delivery of it has failed, or its value cannot
\* be encoded, which happens at the first path), and no other set call has
\* run since the set-up, then the paths up to the k-th hold the new value,
\* the paths after it hold the value they had, and the caller gets the
\* exception and no list.
C35_SetWithExpressionStopsAtFailure ==
    (/\ last.op = "set_with_expression"
     /\ last.status = "raised"
     /\ last.call = 1
     /\ nsets = 1)
        => LET resolved == ResolvedPaths(paths_to_info, last.arg.path)
               k == IF last.error = "delivery"
                    THEN IndexOf(resolved,
                                 last.gather.sent[1].message.path)
                    ELSE 1
           IN  /\ last.ret = << >>
               /\ k \in DOMAIN resolved
               /\ \A i \in DOMAIN resolved :
                      Stored(memory, resolved[i])
                          = IF i <= k THEN last.arg.value ELSE SetUpValue

\* C35 happens: the delivery of the third of four paths has failed; the
\* first three paths hold the new value and the fourth the old one.
C35_Witness ==
    /\ last.op = "set_with_expression"
    /\ last.status = "raised"
    /\ last.error = "delivery"
    /\ nsets = 1
    /\ last.gather.sent[1].message.path = pAX
    /\ Stored(memory, pABC) = IntValue(7)
    /\ Stored(memory, pAX) = IntValue(7)
    /\ Stored(memory, pAXY) = SetUpValue

\* The start calls that have returned.
Returned(st) == {c \in Callers : st[c] = "returned"}

\* C36: once a start has completed, every start called afterwards raises
\* RuntimeError("Server already started.") and leaves the server in place.
C36_StartAfterStartRaises ==
    [][\A c \in Callers :
          (starts[c] = "idle" /\ starts'[c] # "idle"
           /\ Returned(starts) # {})
              => /\ starts'[c] = "raised"
                 /\ last'.status = "raised"
                 /\ last'.error = "RuntimeError: Server already started."
                 /\ _server # NoServer
                 /\ _server' = _server]_vars

\* C36 happens: a start has returned and a start called after it has
\* raised.
C36_Witness ==
    /\ last.op = "start"
    /\ last.status = "raised"
    /\ Returned(starts) # {}
    /\ _server \in Returned(starts)

\* C37: however two concurrent start calls on one MockServer interleave, at
\* most one of them creates a server (the other raises RuntimeError), and a
\* server once created is never replaced.
C37_ConcurrentStartsCreateOneServer ==
    [][/\ Cardinality(Returned(starts')) <= 1
       /\ _server # NoServer => _server' = _server]_vars

\* C38: set stores the value before it encodes the update. When the
\* encoding fails, set raises, the path holds the new value, and no
\* sendValues call has been made for that set.
C38_StoreBeforeEncode ==
    [][(last'.op = "set" /\ last'.status = "raised"
        /\ last'.error # "delivery")
          => /\ nsets' = nsets + 1
             /\ Stored(memory', last'.arg.path) = last'.arg.value
             /\ inflight' = inflight
             /\ \A d \in inflight' : d.call # last'.call
             /\ \A s \in Slots : tasks'[s].call # last'.call]_vars

\* C38 happens: a set of a value that cannot be encoded has raised on a
\* path with a subscriber, over a value stored before.
C38_Witness ==
    /\ last.op = "set"
    /\ last.status = "raised"
    /\ last.error = "NotImplementedError"
    /\ DictGet(path_to_streaming_handles, last.arg.path, << >>) # << >>
    /\ lastSet[last.arg.path].count = 2
    /\ Stored(memory, last.arg.path) = TriggerSampleValue

\* C39: get, get_with_expression, list_nodes, list_nodes_info and
\* subscribe_logic change no stored value and send nothing to a
\* subscriber; a get of a path never written makes no entry for it in the
\* store.
C39_ReadsChangeNothing ==
    [][last'.op \in {"get", "get_with_expression", "list_nodes",
                     "list_nodes_info", "subscribe"}
          => /\ memory' = memory
             /\ DOMAIN memory' = DOMAIN memory
             /\ inflight' = inflight
             /\ tasks' = tasks]_vars

\* C39 happens: get has answered for a path never written, with the
\* placeholder, while another path holds a value and a set waits for its
\* delivery.
C39_Witness ==
    /\ last.op = "get"
    /\ last.arg = pAC
    /\ pAC \notin DOMAIN memory
    /\ last.ret[1].value = NotFoundValue
    /\ pAX \in DOMAIN memory
    /\ inflight # {}

\* C40: _version_string_to_tuple returns a triple of integers for a version
\* string of exactly three parts separated by dots (0 for a part that is
\* not a number) and raises ValueError for every other version string
\* (fewer parts or more).
C40_VersionNeedsThreeParts ==
    last.op = "_version_string_to_tuple"
        => LET parts == str_split(last.arg, ".") IN
           IF Len(parts) = VERSION_LENGTH
           THEN /\ last.status = "ok"
                /\ last.ret = [i \in 1..VERSION_LENGTH |->
                                  IF int(parts[i]).raised THEN 0
                                  ELSE int(parts[i]).v]
           ELSE /\ last.status = "raised"
                /\ last.error = "ValueError: Version string must contain three parts separated by dots"

====
